---- MODULE Spec2Model ----
(***************************************************************************)
(* Agent Pulse: the turn loop of Agent.run (src/src/agent.ts) together     *)
(* with the parts of the provider adapters that decide what one generate   *)
(* call returns or whether it fails (Spec), one generate call of an        *)
(* adapter folding its vendor stream into a response (StreamSpec), one     *)
(* generate call building its vendor request (RequestSpec), the SSE bridge *)
(* (SSESpec), two interleaved calls of run() on one Agent (PairSpec), and   *)
(* chain(steps) with the runs on the agents of its steps (ChainSpec).      *)
(*                                                                         *)
(* JavaScript values are records [kind, s]: kind is the kind of value and  *)
(* s its text, a sequence of tokens, so that template strings, prefixes,   *)
(* JSON.stringify and JSON.parse are computed and not assumed.             *)
(***************************************************************************)
EXTENDS Integers, Sequences, FiniteSets, TLC

VARIABLES
    cfg,            \* this.config: the agent's static configuration
    input,          \* inputContext given to run()
    pc,             \* position of the run inside Agent.run
    messages,       \* let messages: AgentMessage[]
    iterations,     \* let iterations
    lastResponse,   \* let lastResponse: AgentResponse | null
    callIdx,        \* position of the for..of loop over response.tool_calls
    lastToolResult, \* let lastToolResult
    events,         \* names of the notifications emitted so far, in order
    handed,         \* length of the history at each provider.generate call
    outcome,        \* the promise returned by run(): pending, resolved, rejected
    toolLog,        \* every tool.execute so far: the call's id, whether it
                    \* returned, its value, the turn, and the position in
                    \* messages of the message written for it
    uttered,        \* the text the model produced in the last generate call
    cause,          \* what raised the exception the catch block handles
    errorKey,       \* error_key of the error notification, "" before it
    rejection,      \* what the promise of run() rejected with, and whether
                    \* the agent had a listener on error when it was emitted
    issued,         \* number of tool calls the vendor has issued in this run
    saved,          \* every call of config.saveFunction so far: where it is
                    \* made, the message it is given, whether it returned
    inFlight,       \* positions in response.tool_calls of the calls whose
                    \* tool.execute has been called and has not settled
    \* one provider.generate call reading its vendor stream
    adapter,        \* the adapter class whose generate is running
    imagine,        \* whether this.model contains "imagine"
    outputSchema,   \* whether generate was given an output_schema
    gpc,            \* idle, streaming (inside for await), settled, failed
    callNo,         \* 1: the call; 2: a second call fed the same stream
    arrived,        \* the chunks the vendor sent to the first call, in order;
                    \* in the second call, the chunks its stream delivers
    fed,            \* number of chunks the running call has consumed
    fullContent,    \* let fullContent / let fullText
    toolCalls,      \* let toolCalls
    usage,          \* let usage
    tokens,         \* the onToken invocations of the running call, in order
    warned,         \* whether console.warn was called after the stream
    response,       \* the AgentResponse the running call returned
    first,          \* the AgentResponse the first call returned
    now,            \* the last reading of Date.now()
    \* one provider.generate call building its vendor request
    rqpc,           \* idle, called (generate entered), built (request ready)
    rqAdapter,      \* the adapter class whose generate is running
    rqImagine,      \* whether this.model contains "imagine"
    rqFiles,        \* the files argument: config.files
    rqPrompt,       \* the prompt argument: a string or a message history
    rqSchema,       \* whether generate was given an output_schema
    rqRequest,      \* the messages / contents sent to the vendor
    \* one bridgeToSSE(res, agent) and the agent it listens to
    ssepc,          \* unbridged, bridged (bridgeToSSE has returned)
    listeners,      \* the events of the agent the bridge has a listener on
    wire,           \* the events written to res, in order
    ended,          \* whether res.end() was called
    closed,         \* whether res has emitted close (the peer went away)
    emitted,        \* number of notifications the agent emitted since
    fired,          \* whether response or error was emitted since
    detachedAt,     \* length of wire when cleanup first ran, -1 before
    \* two calls of run() on one Agent, interleaved at their awaits
    pairCfg,        \* this.config of the Agent both calls run on
    ppc,            \* position of each call: idle, start, while, generate,
                    \* answer (awaiting generate), tool, done
    histories,      \* the messages arrays, one per storage slot
    counters,       \* the iterations counters, one per storage slot
    given,          \* per call, the histories it passed to provider.generate
    pending,        \* per call, the tool calls of the answer that the loop
                    \* over response.tool_calls has still to go through
    \* one chain(steps) and the runs on the agents of its steps
    chainSteps,     \* the steps argument: per step its agent and whether
                    \* its input is a function of the previous results
    cpc,            \* idle, called, awaiting (inside await new Promise),
                    \* resolved, rejected
    results,        \* const results: AgentResponse[]
    registered,     \* the listeners chain has put on the agents and has
                    \* not removed: the agent, the event, the step
    started,        \* every run() started on the agents, in order: its
                    \* agent, the step that started it (0: other code),
                    \* its input, where it stands, whether its rejection
                    \* has reached the reaction chain put on its promise
    settled         \* the promise of the step being awaited

runVars == << cfg, input, pc, messages, iterations, lastResponse, callIdx,
              lastToolResult, events, handed, outcome, toolLog, uttered, cause,
              issued, saved, inFlight, errorKey, rejection >>

streamVars == << adapter, imagine, outputSchema, gpc, callNo, arrived, fed, fullContent,
                 toolCalls, usage, tokens, warned, response, first, now >>

requestVars == << rqpc, rqAdapter, rqImagine, rqFiles, rqPrompt, rqSchema, rqRequest >>

\* the variables of the machines other than the run and the stream
sseVars == << ssepc, listeners, wire, ended, closed, emitted, fired, detachedAt >>

pairVars == << pairCfg, ppc, histories, counters, given, pending >>

chainVars == << chainSteps, cpc, results, registered, started, settled >>

restVars == << requestVars, sseVars, pairVars, chainVars >>

vars == << runVars, streamVars, restVars >>

----------------------------------------------------------------------------
(* Bounds of the model *)

\* largest max_tool_iterations a configuration carries
MaxCap == 2
\* most tool calls the vendor issues in a run of a single turn
MaxCalls == 2
\* most tool calls the vendor issues over a run of several turns
MaxLoopCalls == 1
\* most chunks a vendor stream carries
MaxChunks == 3
\* latest reading of the clock (the first reading is 1)
MaxClock == 2
\* most notifications an agent emits while a bridge is followed
MaxEmits == 4

----------------------------------------------------------------------------
(* JavaScript values *)

Null == [kind |-> "null", s |-> << >>]
Undefined == [kind |-> "undefined", s |-> << >>]
Str(s) == [kind |-> "string", s |-> s]
Obj(k) == [kind |-> "object", s |-> << k >>]

\* typeof v === 'string'
TypeofString(v) == v.kind = "string"

\* ToBoolean(v) as used by `v || null`, `if (v)`
Truthy(v) ==
    CASE v.kind = "string" -> v.s # << >>
      [] v.kind = "object" -> TRUE
      [] OTHER -> FALSE

JSONKeys == {"ok", "odd"}

\* JSON.stringify(v) for a value that is not undefined
JSONstringify(v) ==
    CASE v.kind = "object" -> << "{" >> \o v.s \o << "}" >>
      [] v.kind = "null" -> << "null" >>
      [] OTHER -> << "\"" >> \o v.s \o << "\"" >>

\* does JSON.parse(text) return (TRUE) or throw a SyntaxError (FALSE)
JSONparses(text) ==
    \/ text = << "null" >>
    \/ /\ Len(text) = 3
       /\ text[1] = "{"
       /\ text[3] = "}"
       /\ text[2] \in JSONKeys
    \/ /\ Len(text) >= 2
       /\ text[1] = "\""
       /\ text[Len(text)] = "\""

\* JSON.parse(text) when it returns
JSONparse(text) ==
    IF text = << "null" >> THEN Null
    ELSE IF text[1] = "{" THEN Obj(text[2])
    ELSE Str(SubSeq(text, 2, Len(text) - 1))

----------------------------------------------------------------------------
(* Inputs the environment can supply *)

\* texts a model utters: nothing, plain text, text that is a JSON object,
\* text that is a JSON string
Texts ==
    { << >>, << "hi" >>, << "{", "ok", "}" >>, << "\"", "hi", "\"" >> }

ToolNames == {"lookup"}
\* names a response can call: a configured tool, and one the agent lacks
CallNames == ToolNames \cup {"ghost"}
CallIds == {"call_1", "call_2"}
NoId == ""

\* what tool.execute can return
ToolResults == { Null, Obj("ok"), Str(<< "sunny" >>) }
\* what makes the vendor call of provider.generate throw: the connection, the
\* API key, anything else
VendorFailures == { "network", "auth", "vendor" }

\* what tool.execute can throw (the message of the Error)
ToolErrors == { << "boom" >> }
\* what the persistence hook can throw
HookErrors == { << "disk" >> }

Providers == {"openai", "grok", "google"}

\* the calls a response can carry: the configured tool under either id, and
\* a tool the agent lacks
ToolCalls ==
    { c \in [id : CallIds, name : CallNames, arguments : {Obj("ok")}] :
         c.name \in ToolNames \/ c.id = "call_2" }

SeqsUpTo(S, n) == UNION { [1..k -> S] : k \in 0..n }

Message(role, content, calls, id, name) ==
    [role |-> role, content |-> content, tool_calls |-> calls,
     tool_call_id |-> id, name |-> name]

UserMessage(text) == Message("user", Str(text), << >>, NoId, "")

\* a history the caller captured from an earlier exchange
PriorHistory ==
    << UserMessage(<< "q" >>),
       Message("assistant", Null,
               << [id |-> "call_2", name |-> "lookup", arguments |-> Obj("ok")] >>,
               NoId, ""),
       Message("tool", Str(JSONstringify(Obj("ok"))), << >>, "call_2", "lookup"),
       UserMessage(<< "more" >>) >>

Inputs == { [isArray |-> FALSE, text |-> << "q" >>, history |-> << >>],
            [isArray |-> TRUE, text |-> << >>, history |-> PriorHistory] }

\* max_tool_iterations: absent, or a number
CapValues == { [set |-> FALSE, n |-> 0] }
             \cup { [set |-> TRUE, n |-> i] : i \in (-1)..MaxCap }

Configs == [ max_tool_iterations : CapValues,
             provider : Providers,
             tools : BOOLEAN,          \* a tool set [lookup] is configured
             saveFunction : BOOLEAN,   \* a persistence hook is configured
             output_schema : BOOLEAN,
             prompt : { << >>, << "p" >> } ]

----------------------------------------------------------------------------
(* Agent.run, piece by piece *)

\* the cap read without its default for 0
MaxIterationsNoDefault(c) ==
    IF c.max_tool_iterations.set THEN c.max_tool_iterations.n ELSE 1

\* const maxIterations = this.config.max_tool_iterations || 1
MaxIterations(c) ==
    IF c.max_tool_iterations.set /\ c.max_tool_iterations.n # 0
    THEN c.max_tool_iterations.n
    ELSE 1

\* this.config.prompt ? `${prompt}\n\n${content}` : content
UserContent(prompt, content) ==
    IF prompt # << >> THEN prompt \o << "\n\n" >> \o content ELSE content

\* 1. Initialize message history
InitialMessages(c, in) ==
    IF in.isArray THEN in.history
    ELSE << UserMessage(UserContent(c.prompt, in.text)) >>

NoResponse ==
    [nil |-> TRUE, content |-> Null, message |-> Undefined, tool_calls |-> << >>,
     latency |-> "unset"]

\* the error text without its prefix
ErrorContentBare(e) == e

\* `Error: ${e instanceof Error ? e.message : String(e)}`
ErrorContent(e) == << "Error: " >> \o e

\* typeof result === 'string' ? result : JSON.stringify(result)
ToolContent(result) ==
    IF TypeofString(result) THEN result.s ELSE JSONstringify(result)

\* the tool's name written where the call's id belongs
ToolCallIdFromName(call) == call.name

\* tool_call_id of the tool-role message written for a call
ToolCallId(call) == call.id

ToolMessage(call, text) ==
    Message("tool", Str(text), << >>, ToolCallId(call), call.name)

\* { role: 'assistant', content: response.content || null, tool_calls }
AssistantMessage(resp) ==
    Message("assistant",
            IF Truthy(resp.content) THEN resp.content ELSE Null,
            resp.tool_calls, NoId, "")

\* a response whose meta keeps the latency the adapter wrote
StampSkipped(resp) == resp

\* lastResponse.meta.latency_ms = Date.now() - startTime
Stamp(resp) == [resp EXCEPT !.latency = "stamped"]

\* { role: 'assistant', content: lastResponse.content, usage, meta }
FinalAssistantMessage(resp) ==
    [role |-> "assistant", content |-> resp.content, tool_calls |-> << >>,
     tool_call_id |-> NoId, name |-> "", latency |-> resp.latency]

\* typeof inputContext === 'string' && this.config.saveFunction
SavesInitial(c, in) == ~in.isArray /\ c.saveFunction

\* a call of saveFunction: made at point, given message; ok is FALSE when
\* the hook rejected and the rejection left the save statement. The saves of
\* the initial and of the final message sit in a try/catch of their own
\* (lines 30-36, 145-155) that only logs: a rejection there leaves the state
\* a return leaves, and the two are one step with ok TRUE.
Save(point, message, ok) == [point |-> point, message |-> message, ok |-> ok]

\* a dispatch loop that starts a call without waiting for the one before
NeverAwaited(executing) == TRUE

\* await tool.execute(...) inside for..of: the loop reaches the next call
\* only when no execution is outstanding
Awaited(executing) == executing = {}

\* the promise of run() has not rejected
NoRejection == [listened |-> FALSE, with |-> ""]

\* this.emit('error', {...}); throw error (lines 129-134). EventEmitter.emit
\* calls the listeners and returns, and the catch block rethrows what it
\* caught; for 'error' without a listener emit itself throws, the payload
\* not being an Error, an ERR_UNHANDLED_ERROR, and the rethrow is not reached
Emit(listened, thrown) ==
    IF listened THEN thrown ELSE "ERR_UNHANDLED_ERROR"

\* messages = inputContext: the run works on the caller's array, and what
\* it pushes shows in the array the caller holds
SameArray(in, history) ==
    IF in.isArray THEN [in EXCEPT !.history = history] ELSE in

\* messages = [...inputContext] (line 22): the run works on a copy, and the
\* array the caller holds stays as it was when the history grows
CopiedArray(in, history) == in

\* a history that takes a new message at its head
Unshift(history, message) == << message >> \o history

\* messages.push(message): the history grows at its end (lines 72, 93, 108)
Push(history, message) == Append(history, message)

\* a hook call that is started and not waited for: the tool loop is entered
\* whatever becomes of the save
AfterAssistantSaveUnawaited(hookOk) == "tools"

\* if (saveFunction) await saveFunction(assistantMsg): the tool loop is
\* entered once the hook call returned; its rejection leaves the try block
AfterAssistantSave(hookOk) == IF hookOk THEN "tools" ELSE "catch"

\* the text captured only when it is truthy: if (response.content)
CaptureMessageIfTruthy(content) ==
    IF Truthy(content) THEN content ELSE Undefined

\* if (typeof response.content === 'string') lastResponse.message = ...
CaptureMessage(content) ==
    IF TypeofString(content) THEN content ELSE Undefined

\* a dispatch decided by the tool calls of the response alone
DispatchesWithoutTools(c, resp) == resp.tool_calls # << >>

\* if (response.tool_calls && this.config.tools)
Dispatches(c, resp) == resp.tool_calls # << >> /\ c.tools

\* this.config.tools.find(t => t.name === call.name)
FindTool(c, call) == c.tools /\ call.name \in ToolNames

\* if (maxIterations === 1 && lastToolResult !== null) content = lastToolResult
FinalToolContent(maxIter, lastResult, content) ==
    IF maxIter = 1 /\ lastResult # Null THEN lastResult ELSE content

\* if (iterations < maxIterations) continue
Continues(iter, maxIter) == iter < maxIter

\* while (iterations < maxIterations)
LoopGuard(iter, maxIter) == iter < maxIter

\* the first result kept instead of the last
KeepFirstToolResult(previous, result) ==
    IF previous = Null THEN result ELSE previous

\* lastToolResult = result
NextToolResult(previous, result) == result

----------------------------------------------------------------------------
(* The provider adapters *)

\* contents = prompt.map(...): Google parses the text of every tool-role
\* message with JSON.parse; the other adapters pass it on as text
HistoryMaps(provider, history) ==
    \/ provider # "google"
    \/ \A i \in 1..Len(history) :
          (history[i].role = "tool" /\ TypeofString(history[i].content))
             => JSONparses(history[i].content.s)

\* a variant in which a failed parse yields null instead of the raw text
FinalContentNullOnFailure(schema, fullText, calls) ==
    IF schema /\ calls = << >>
    THEN IF JSONparses(fullText) THEN JSONparse(fullText) ELSE Null
    ELSE Str(fullText)

\* Parse structured output if needed
FinalContent(schema, fullText, calls) ==
    IF schema /\ calls = << >> /\ JSONparses(fullText)
    THEN JSONparse(fullText)
    ELSE Str(fullText)

\* return { content: finalContent, tool_calls: ... }
ProviderResponse(schema, fullText, calls) ==
    [nil |-> FALSE,
     content |-> FinalContent(schema, fullText, calls),
     message |-> Undefined,
     tool_calls |-> calls,
     latency |-> "unset"]

----------------------------------------------------------------------------
(* Provider adapters: what the vendor streams and how generate folds it *)

EmptyObject == [kind |-> "object", s |-> << >>]

\* output_schema.parse(value): the schema asks for an object with key ok
SchemaAccepts(value) == value = Obj("ok")

\* a += b for a string b: an undefined a is converted to the text undefined
Plus(a, b) ==
    Str((IF a.kind = "string" THEN a.s ELSE << "undefined" >>) \o b.s)

\* adapters that follow the indexed-fragment pattern
IndexedAdapters == {"openai", "grok"}

\* grok.ts 30: if (this.model.includes('imagine')): generate goes to the
\* images API and never opens the chat stream
ImageMode(provider, imagines) == provider = "grok" /\ imagines

ZeroUsage == [input_tokens |-> 0, output_tokens |-> 0, total_tokens |-> 0]

\* chunk.choices[0].delta.content: an empty text, plain text, JSON texts
Fragments ==
    { << >>, << "hi" >>, << "{", "ok", "}" >>, << "{", "odd", "}" >> }

\* chunk.choices[0].delta.tool_calls[i]: fragments of call 0 (its name in
\* two pieces, with, without and with empty arguments; arguments in two
\* pieces) and the announcement of call 1
Deltas ==
    { [index |-> 0, id |-> Str(<< "call_1" >>),
       name |-> Str(<< "get_" >>), arguments |-> Undefined],
      [index |-> 0, id |-> Str(<< "call_1" >>),
       name |-> Str(<< "get_" >>), arguments |-> Str(<< >>)],
      [index |-> 0, id |-> Undefined,
       name |-> Str(<< "weather" >>), arguments |-> Str(<< "{" >>)],
      [index |-> 0, id |-> Undefined,
       name |-> Undefined, arguments |-> Str(<< "ok", "}" >>)],
      [index |-> 1, id |-> Str(<< "call_2" >>),
       name |-> Str(<< "lookup" >>), arguments |-> Str(<< "{", "ok", "}" >>)] }

\* chunk.usage of the OpenAI and Grok streams
UsageReports ==
    { [prompt_tokens |-> 1, completion_tokens |-> 1, total_tokens |-> 2],
      [prompt_tokens |-> 1, completion_tokens |-> 2, total_tokens |-> 3] }

\* a chunk of the OpenAI and Grok streams carries text, a tool-call
\* fragment or a usage report
IndexedChunks ==
    { [content |-> Str(f), tool_calls |-> << >>, usage |-> Null] :
         f \in Fragments }
    \cup { [content |-> Undefined, tool_calls |-> << d >>, usage |-> Null] :
              d \in Deltas }
    \cup { [content |-> Undefined, tool_calls |-> << >>, usage |-> r] :
              r \in UsageReports }

\* chunk.candidates[0].content.parts[i] of the Google stream
TextPart(f) == [text |-> Str(f), functionCall |-> Undefined, inlineData |-> Undefined]
CallPart ==
    [text |-> Undefined,
     functionCall |-> [name |-> Str(<< "get_weather" >>), args |-> Obj("ok")],
     inlineData |-> Undefined]
ImagePart ==
    [text |-> Undefined, functionCall |-> Undefined,
     inlineData |-> [mimeType |-> << "image/png" >>, data |-> << "AAAA" >>]]

\* chunk.usageMetadata of the Google stream
UsageMetadata ==
    { [promptTokenCount |-> 1, candidatesTokenCount |-> 1, totalTokenCount |-> 2],
      [promptTokenCount |-> 1, candidatesTokenCount |-> 2, totalTokenCount |-> 3] }

\* a chunk of the Google stream carries one or two parts, or a usage report
WholeChunks ==
    { [parts |-> p, usageMetadata |-> Null] :
         p \in { << TextPart(<< >>) >>,
                 << TextPart(<< "hi" >>) >>,
                 << TextPart(<< "{", "ok", "}" >>) >>,
                 << TextPart(<< "{", "odd", "}" >>) >>,
                 << CallPart >>,
                 << ImagePart >>,
                 << TextPart(<< "hi" >>), TextPart(<< "{", "ok", "}" >>) >>,
                 << CallPart, TextPart(<< "hi" >>) >>,
                 << TextPart(<< "hi" >>), CallPart >>,
                 << CallPart, CallPart >> } }
    \cup { [parts |-> << >>, usageMetadata |-> r] : r \in UsageMetadata }

\* grok.ts 72, 36-60: response.data / json.data of the images API: every
\* image comes as base64 data or as a URL
B64Image == [b64_json |-> Str(<< "AAAA" >>), url |-> Undefined]
UrlImage == [b64_json |-> Undefined, url |-> Str(<< "https://x/1.png" >>)]

ImageResponses ==
    { << >>, << B64Image >>, << UrlImage >>, << B64Image, UrlImage >> }

\* what the images API delivered, kept with the chunks of the call
ImageResponse(images) ==
    [content |-> Undefined, tool_calls |-> << >>, usage |-> Null, images |-> images]

\* grok.ts 75-80: the markdown of image i of the response
ImageMarkdown(images, i) ==
    << "![Generated Image" >>
    \o (IF Len(images) > 1 THEN << " ", ToString(i) >> ELSE << >>)
    \o (IF Truthy(images[i].b64_json)
        THEN << "](data:image/png;base64," >> \o images[i].b64_json.s
        ELSE << "](" >> \o images[i].url.s)
    \o << ")" >>

\* grok.ts 75-82: markdownParts.join('\n\n')
RECURSIVE ImagesContent(_, _)
ImagesContent(images, i) ==
    IF i > Len(images) THEN << >>
    ELSE ImageMarkdown(images, i)
         \o (IF i < Len(images) THEN << "\n\n" >> ELSE << >>)
         \o ImagesContent(images, i + 1)

\* const token = chunk.choices[0].delta.content
\* const text = chunk.candidates?.[0]?.content?.parts?.[0]?.text
ChunkText(provider, chunk) ==
    IF provider \in IndexedAdapters THEN chunk.content
    ELSE IF chunk.parts = << >> THEN Undefined
    ELSE chunk.parts[1].text

\* if (token) fullContent += token
TextAfter(text, fragment) ==
    IF Truthy(fragment) THEN text \o fragment.s ELSE text

\* a variant that hands the fragment to onToken before adding it
TokensBeforeAdding(log, text, fragment) ==
    IF Truthy(fragment)
    THEN Append(log, [text |-> fragment.s, accumulated |-> text])
    ELSE log

\* if (token) { fullContent += token; onToken(token) }: the invocation is
\* logged with the accumulated text at the time onToken is called
TokensAfter(log, text, fragment) ==
    IF Truthy(fragment)
    THEN Append(log, [text |-> fragment.s,
                      accumulated |-> TextAfter(text, fragment)])
    ELSE log

\* toolCalls[index].function.name += ..., .arguments += ...
MergeDelta(slot, tc) ==
    [slot EXCEPT
       !.name = IF Truthy(tc.name) THEN Plus(@, tc.name) ELSE @,
       !.arguments = IF Truthy(tc.arguments) THEN Plus(@, tc.arguments) ELSE @]

\* if (!toolCalls[index]) toolCalls[index] = tc; else merge. Array index i
\* is position i + 1; writing past the end leaves holes, which read as
\* undefined
StoreDelta(calls, tc) ==
    LET i == tc.index + 1 IN
    IF i > Len(calls)
    THEN calls \o [k \in 1..(i - 1 - Len(calls)) |-> Undefined] \o << tc >>
    ELSE IF calls[i] = Undefined
    THEN [calls EXCEPT ![i] = tc]
    ELSE [calls EXCEPT ![i] = MergeDelta(@, tc)]

\* for (const tc of chunkToolCalls) ...
RECURSIVE StoreDeltas(_, _)
StoreDeltas(calls, deltas) ==
    IF deltas = << >> THEN calls
    ELSE StoreDeltas(StoreDelta(calls, Head(deltas)), Tail(deltas))

\* for (const part of parts) if (part.functionCall) toolCalls.push(...);
\* readings holds one reading of Date.now() for each push
RECURSIVE PushCalls(_, _, _)
PushCalls(calls, parts, readings) ==
    IF parts = << >> THEN calls
    ELSE IF Head(parts).functionCall # Undefined
    THEN PushCalls(Append(calls,
                          [name |-> Head(parts).functionCall.name,
                           arguments |-> Head(parts).functionCall.args,
                           id |-> Str(<< "call_", ToString(Head(readings)) >>)]),
                   Tail(parts), Tail(readings))
    ELSE PushCalls(calls, Tail(parts), readings)

\* number of parts of a chunk that carry a functionCall
CallParts(parts) ==
    Cardinality({ i \in DOMAIN parts : parts[i].functionCall # Undefined })

\* for (const part of parts) if (part.inlineData) fullText += `\n![...`
RECURSIVE ImagesAfter(_, _)
ImagesAfter(text, parts) ==
    IF parts = << >> THEN text
    ELSE IF Head(parts).inlineData # Undefined
    THEN ImagesAfter(text \o << "\n![Generated Image](data:" >>
                          \o Head(parts).inlineData.mimeType
                          \o << ";base64," >>
                          \o Head(parts).inlineData.data
                          \o << ")\n" >>,
                     Tail(parts))
    ELSE ImagesAfter(text, Tail(parts))

\* a variant that adds each report to the running totals
UsageSummed(provider, current, chunk) ==
    IF provider \in IndexedAdapters
    THEN IF chunk.usage = Null THEN current
         ELSE [input_tokens |-> current.input_tokens + chunk.usage.prompt_tokens,
               output_tokens |-> current.output_tokens + chunk.usage.completion_tokens,
               total_tokens |-> current.total_tokens + chunk.usage.total_tokens]
    ELSE IF chunk.usageMetadata = Null THEN current
         ELSE [input_tokens |-> current.input_tokens + chunk.usageMetadata.promptTokenCount,
               output_tokens |-> current.output_tokens + chunk.usageMetadata.candidatesTokenCount,
               total_tokens |-> current.total_tokens + chunk.usageMetadata.totalTokenCount]

\* if (chunk.usage) usage = { input_tokens: chunk.usage.prompt_tokens, ... }
\* if (chunk.usageMetadata) usage = { input_tokens: ...promptTokenCount || 0,
\* ... }: a count of 0 stays 0 under || 0
UsageAfter(provider, current, chunk) ==
    IF provider \in IndexedAdapters
    THEN IF chunk.usage = Null THEN current
         ELSE [input_tokens |-> chunk.usage.prompt_tokens,
               output_tokens |-> chunk.usage.completion_tokens,
               total_tokens |-> chunk.usage.total_tokens]
    ELSE IF chunk.usageMetadata = Null THEN current
         ELSE [input_tokens |-> chunk.usageMetadata.promptTokenCount,
               output_tokens |-> chunk.usageMetadata.candidatesTokenCount,
               total_tokens |-> chunk.usageMetadata.totalTokenCount]

\* JSON.parse(tc.function.arguments) returns for every accumulated call (a
\* hole of the array is skipped by map)
ArgumentsParse(calls) ==
    \A i \in DOMAIN calls :
       (calls[i] # Undefined /\ Truthy(calls[i].arguments))
          => JSONparses(calls[i].arguments.s)

\* toolCalls.map(tc => ({ name, arguments: ... ? JSON.parse(...) : {}, id }))
GenericToolCalls(calls) ==
    [i \in DOMAIN calls |->
        IF calls[i] = Undefined THEN Undefined
        ELSE [name |-> calls[i].name,
              arguments |-> IF Truthy(calls[i].arguments)
                            THEN JSONparse(calls[i].arguments.s)
                            ELSE EmptyObject,
              id |-> calls[i].id]]

\* whether the catch after the stream logs a warning: the parse or the
\* validation threw (OpenAI, Grok); the Google adapter ignores a failed
\* parse and never validates
Warns(provider, schema, text, calls) ==
    /\ provider \in IndexedAdapters
    /\ schema /\ calls = << >>
    /\ \/ ~JSONparses(text)
       \/ ~SchemaAccepts(JSONparse(text))

\* return { content: finalContent, tool_calls, usage, meta }
GenerateResult(provider, schema, text, calls, use) ==
    [content |-> FinalContent(schema, text, calls),
     tool_calls |-> IF provider \in IndexedAdapters
                    THEN GenericToolCalls(calls) ELSE calls,
     usage |-> use]

NoResult == [content |-> Undefined, tool_calls |-> << >>, usage |-> ZeroUsage]

\* the variables of a generate call while no call is being followed
StreamIdle ==
    /\ adapter = "openai"
    /\ imagine = FALSE
    /\ outputSchema = FALSE
    /\ gpc = "idle"
    /\ callNo = 0
    /\ arrived = << >>
    /\ fed = 0
    /\ fullContent = << >>
    /\ toolCalls = << >>
    /\ usage = ZeroUsage
    /\ tokens = << >>
    /\ warned = FALSE
    /\ response = NoResult
    /\ first = NoResult
    /\ now = 1

\* the variables of a request while no request is being followed
RequestIdle ==
    /\ rqpc = "idle"
    /\ rqAdapter = "openai"
    /\ rqImagine = FALSE
    /\ rqFiles = << >>
    /\ rqPrompt = [isArray |-> FALSE, text |-> << >>, history |-> << >>]
    /\ rqSchema = FALSE
    /\ rqRequest = << >>

\* the variables of a bridge while no bridge is being followed
SSEIdle ==
    /\ ssepc = "idle"
    /\ listeners = {}
    /\ wire = << >>
    /\ ended = FALSE
    /\ closed = FALSE
    /\ emitted = 0
    /\ fired = FALSE
    /\ detachedAt = -1

\* the two calls of run() a pair of concurrent runs is made of
Runs == { 1, 2 }

\* the variables of a pair of runs while no pair is being followed
PairIdle ==
    /\ pairCfg = [max_tool_iterations |-> [set |-> FALSE, n |-> 0],
                  provider |-> "openai", tools |-> FALSE, saveFunction |-> FALSE,
                  output_schema |-> FALSE, prompt |-> << >>]
    /\ ppc = [r \in Runs |-> "idle"]
    /\ histories = [r \in Runs |-> << >>]
    /\ counters = [r \in Runs |-> 0]
    /\ given = [r \in Runs |-> << >>]
    /\ pending = [r \in Runs |-> << >>]

\* what a promise is settled with, and a promise that is still pending
Payload(kind, r) == [kind |-> kind, run |-> r]

Pending == [state |-> "pending", value |-> Payload("none", 0)]

\* the variables of a chain while no chain is being followed
ChainIdle ==
    /\ chainSteps = << >>
    /\ cpc = "idle"
    /\ results = << >>
    /\ registered = {}
    /\ started = << >>
    /\ settled = Pending

RestIdle == RequestIdle /\ SSEIdle /\ PairIdle /\ ChainIdle

----------------------------------------------------------------------------
(* The run as a state machine *)

Init ==
    /\ cfg \in Configs
    /\ input \in Inputs
    \* config.prompt is read only for a string input (line 24): one value
    \* of it is enough with an array input
    /\ input.isArray => cfg.prompt = << >>
    \* the run meets its adapter only where generate maps the history, and
    \* Grok maps it with the code of OpenAI (grok.ts 99-124): one of the two
    \* is enough
    /\ cfg.provider # "grok"
    /\ pc = "start"
    /\ messages = << >>
    /\ iterations = 0
    /\ lastResponse = NoResponse
    /\ callIdx = 0
    /\ lastToolResult = Null
    /\ events = << >>
    /\ handed = << >>
    /\ outcome = "pending"
    /\ toolLog = << >>
    /\ uttered = << >>
    /\ cause = "none"
    /\ issued = 0
    /\ saved = << >>
    /\ inFlight = {}
    /\ errorKey = ""
    /\ rejection = NoRejection
    /\ StreamIdle
    /\ RestIdle

\* lines 16-41: emit start, build the history, save the new user message
\* (a failure of the hook is caught and logged: it changes nothing)
Start ==
    /\ pc = "start"
    /\ events' = Append(events, "start")
    /\ messages' = InitialMessages(cfg, input)
    /\ saved' = IF SavesInitial(cfg, input)
                THEN Append(saved,
                            Save("initial",
                                 InitialMessages(cfg, input)[Len(InitialMessages(cfg, input))],
                                 TRUE))
                ELSE saved
    /\ pc' = "while"
    /\ UNCHANGED << cfg, input, iterations, lastResponse, callIdx,
                    lastToolResult, handed, outcome, toolLog, uttered, cause,
                    issued, inFlight >>
    /\ UNCHANGED << errorKey, rejection >>
    /\ UNCHANGED << streamVars, restVars >>

\* lines 44-45: while (iterations < maxIterations) { iterations++
WhileTest ==
    /\ pc = "while"
    /\ IF LoopGuard(iterations, MaxIterations(cfg))
       THEN /\ iterations' = iterations + 1
            /\ pc' = "generate"
       ELSE /\ iterations' = iterations
            /\ pc' = "after"
    /\ UNCHANGED << cfg, input, messages, lastResponse, callIdx,
                    lastToolResult, events, handed, outcome, toolLog, uttered, cause, issued >>
    /\ UNCHANGED << saved, inFlight >>
    /\ UNCHANGED << errorKey, rejection >>
    /\ UNCHANGED << streamVars, restVars >>

\* lines 47-55, 128: provider.generate throws while it maps the history to
\* the vendor's format
HistoryRejected ==
    /\ pc = "generate"
    /\ ~HistoryMaps(cfg.provider, messages)
    /\ handed' = Append(handed, Len(messages))
    /\ cause' = "history"
    /\ pc' = "catch"
    /\ UNCHANGED << cfg, input, messages, iterations, lastResponse, callIdx,
                    lastToolResult, events, outcome, toolLog, uttered, issued >>
    /\ UNCHANGED << saved, inFlight >>
    /\ UNCHANGED << errorKey, rejection >>
    /\ UNCHANGED << streamVars, restVars >>

\* lines 47-55, 128: provider.generate throws because the vendor call fails
VendorFails ==
    /\ pc = "generate"
    /\ HistoryMaps(cfg.provider, messages)
    /\ handed' = Append(handed, Len(messages))
    /\ \E kind \in VendorFailures : cause' = kind
    /\ pc' = "catch"
    /\ UNCHANGED << cfg, input, messages, iterations, lastResponse, callIdx,
                    lastToolResult, events, outcome, toolLog, uttered, issued >>
    /\ UNCHANGED << saved, inFlight >>
    /\ UNCHANGED << errorKey, rejection >>
    /\ UNCHANGED << streamVars, restVars >>

\* error_key: 'execution_error' (line 130): the one tag the catch block writes
ErrorKey(thrown) == "execution_error"

\* tool calls the vendor may still issue in this run
CallBudget == IF MaxIterations(cfg) > 1 THEN MaxLoopCalls ELSE MaxCalls

\* lines 47-76: provider.generate returns; the text is kept as message; with
\* tool calls and a tool set the assistant message is appended and saved
GenerateReturns ==
    /\ pc = "generate"
    /\ HistoryMaps(cfg.provider, messages)
    /\ \E text \in Texts, calls \in SeqsUpTo(ToolCalls, CallBudget - issued),
          hookOk \in BOOLEAN :
          LET resp == ProviderResponse(cfg.output_schema, text, calls) IN
          \* a text that is a JSON string is drawn with an answer without
          \* tool calls only: the adapters parse no text of an answer that
          \* carries tool calls (openai.ts 164: !toolCalls.length)
          /\ calls # << >>
                => ~(JSONparses(text) /\ TypeofString(JSONparse(text)))
          /\ hookOk \/ (cfg.saveFunction /\ Dispatches(cfg, resp))
          /\ handed' = Append(handed, Len(messages))
          /\ issued' = issued + Len(calls)
          /\ uttered' = text
          /\ cause' = IF Dispatches(cfg, resp) /\ ~hookOk THEN "hook" ELSE cause
          /\ lastResponse' = [resp EXCEPT !.message = CaptureMessage(resp.content)]
          /\ saved' = IF Dispatches(cfg, resp) /\ cfg.saveFunction
                      THEN Append(saved, Save("assistant", AssistantMessage(resp), hookOk))
                      ELSE saved
          /\ IF Dispatches(cfg, resp)
             THEN /\ messages' = Push(messages, AssistantMessage(resp))
                  /\ lastToolResult' = Null
                  /\ callIdx' = 1
                  /\ pc' = AfterAssistantSave(hookOk)
             ELSE /\ pc' = "after"
                  /\ UNCHANGED << messages, lastToolResult, callIdx >>
    /\ UNCHANGED << cfg, iterations, events, outcome, toolLog, inFlight >>
    /\ input' = CopiedArray(input, messages')
    /\ UNCHANGED << errorKey, rejection >>
    /\ UNCHANGED << streamVars, restVars >>

\* the call the for..of loop over response.tool_calls is about to dispatch
CurrentCall == lastResponse.tool_calls[callIdx]

InToolLoop == pc = "tools" /\ callIdx <= Len(lastResponse.tool_calls)

\* lines 80-81, 110: no configured tool has the call's name: nothing happens
ToolMissing ==
    /\ InToolLoop
    /\ Awaited(inFlight)
    /\ ~FindTool(cfg, CurrentCall)
    /\ callIdx' = callIdx + 1
    /\ UNCHANGED << cfg, input, pc, messages, iterations, lastResponse,
                    lastToolResult, events, handed, outcome, toolLog, uttered,
                    cause, issued, saved, inFlight >>
    /\ UNCHANGED << errorKey, rejection >>
    /\ UNCHANGED << streamVars, restVars >>

\* lines 80-84: the tool is found: emit tool_start and call tool.execute
ToolStart ==
    /\ InToolLoop
    /\ Awaited(inFlight)
    /\ FindTool(cfg, CurrentCall)
    /\ events' = Append(events, "tool_start")
    /\ inFlight' = inFlight \cup {callIdx}
    /\ callIdx' = callIdx + 1
    /\ UNCHANGED << cfg, input, pc, messages, iterations, lastResponse,
                    lastToolResult, handed, outcome, toolLog, uttered, cause,
                    issued, saved >>
    /\ UNCHANGED << errorKey, rejection >>
    /\ UNCHANGED << streamVars, restVars >>

\* lines 84-98: tool.execute returns; tool_end is emitted, the result
\* message is appended and the hook is called with it and awaited. When the
\* hook will reject, the run waits for the rejection at line 97.
ToolReturns ==
    /\ pc = "tools"
    /\ \E k \in inFlight, result \in ToolResults :
          LET call == lastResponse.tool_calls[k]
              toolMsg == ToolMessage(call, ToolContent(result))
          IN
          /\ events' = Append(events, "tool_end")
          /\ lastToolResult' = NextToolResult(lastToolResult, result)
          /\ toolLog' = Append(toolLog,
                               [call |-> k, id |-> call.id,
                                ok |-> TRUE, value |-> result,
                                at |-> Len(messages) + 1, iteration |-> iterations])
          /\ messages' = Push(messages, toolMsg)
          /\ \/ /\ saved' = IF cfg.saveFunction
                            THEN Append(saved, Save("tool", toolMsg, TRUE))
                            ELSE saved
                /\ pc' = pc
             \/ /\ cfg.saveFunction
                /\ saved' = Append(saved, Save("tool", toolMsg, FALSE))
                /\ pc' = "toolsave"
          /\ inFlight' = inFlight \ {k}
    /\ UNCHANGED << cfg, iterations, lastResponse, callIdx, handed,
                    outcome, uttered, cause, issued >>
    /\ input' = CopiedArray(input, messages')
    /\ UNCHANGED << errorKey, rejection >>
    /\ UNCHANGED << streamVars, restVars >>

\* lines 97, 99-109: the rejection of the hook arrives: the catch of the
\* call's try block appends an error message for the same call
ToolSaveRejects ==
    /\ pc = "toolsave"
    /\ \E e \in HookErrors :
          LET call == lastResponse.tool_calls[toolLog[Len(toolLog)].call] IN
          messages' = Push(messages, ToolMessage(call, ErrorContent(e)))
    /\ pc' = "tools"
    /\ UNCHANGED << cfg, iterations, lastResponse, callIdx, lastToolResult,
                    events, handed, outcome, toolLog, uttered, cause, issued,
                    saved, inFlight >>
    /\ input' = CopiedArray(input, messages')
    /\ UNCHANGED << errorKey, rejection >>
    /\ UNCHANGED << streamVars, restVars >>

\* lines 84, 99-109: tool.execute throws: the error text is appended as the
\* tool's result message (and is not saved)
ToolThrows ==
    /\ pc = "tools"
    /\ \E k \in inFlight, e \in ToolErrors :
          LET call == lastResponse.tool_calls[k] IN
          /\ messages' = Push(messages, ToolMessage(call, ErrorContent(e)))
          /\ toolLog' = Append(toolLog,
                               [call |-> k, id |-> call.id,
                                ok |-> FALSE, value |-> Str(e),
                                at |-> Len(messages) + 1, iteration |-> iterations])
          /\ inFlight' = inFlight \ {k}
    /\ UNCHANGED << cfg, pc, iterations, lastResponse, callIdx,
                    lastToolResult, events, handed, outcome, uttered, cause,
                    issued, saved >>
    /\ input' = CopiedArray(input, messages')
    /\ UNCHANGED << errorKey, rejection >>
    /\ UNCHANGED << streamVars, restVars >>

\* lines 113-123: after the last call: with a cap of 1 the last tool result
\* becomes the content; then continue the loop or leave it
AfterTools ==
    /\ pc = "tools"
    /\ callIdx > Len(lastResponse.tool_calls)
    /\ Awaited(inFlight)
    /\ lastResponse' =
          [lastResponse EXCEPT !.content =
              FinalToolContent(MaxIterations(cfg), lastToolResult, @)]
    /\ pc' = IF Continues(iterations, MaxIterations(cfg)) THEN "while" ELSE "after"
    /\ UNCHANGED << cfg, input, messages, iterations, callIdx, lastToolResult,
                    events, handed, outcome, toolLog, uttered, cause, issued >>
    /\ UNCHANGED << saved, inFlight >>
    /\ UNCHANGED << errorKey, rejection >>
    /\ UNCHANGED << streamVars, restVars >>

\* lines 128-135: catch: emit the error notification and rethrow
CatchError ==
    /\ pc = "catch"
    /\ events' = Append(events, "error")
    /\ outcome' = "rejected"
    /\ pc' = "done"
    /\ UNCHANGED << cfg, input, messages, iterations, lastResponse, callIdx,
                    lastToolResult, handed, toolLog, uttered, cause, issued >>
    /\ UNCHANGED << saved, inFlight >>
    /\ errorKey' = ErrorKey(cause)
    /\ \E listened \in BOOLEAN :
          rejection' = [listened |-> listened, with |-> Emit(listened, cause)]
    /\ UNCHANGED << streamVars, restVars >>

\* lines 137-139: the loop was never entered: throw outside the try block
NoResponseThrow ==
    /\ pc = "after"
    /\ lastResponse.nil
    /\ outcome' = "rejected"
    /\ pc' = "done"
    /\ UNCHANGED << cfg, input, messages, iterations, lastResponse, callIdx,
                    lastToolResult, events, handed, toolLog, uttered, cause, issued >>
    /\ UNCHANGED << saved, inFlight >>
    /\ UNCHANGED errorKey
    /\ rejection' = [listened |-> FALSE, with |-> "no response"]
    /\ UNCHANGED << streamVars, restVars >>

\* lines 141-155: with a hook, stamp the latency and call the hook with the
\* final assistant message; run() waits for the call (a failure of the hook
\* is caught and logged)
FinalSave ==
    /\ pc = "after"
    /\ ~lastResponse.nil
    /\ cfg.saveFunction
    /\ lastResponse' = Stamp(lastResponse)
    /\ saved' = Append(saved,
                       Save("final", FinalAssistantMessage(lastResponse'), TRUE))
    /\ pc' = "emit"
    /\ UNCHANGED << cfg, input, messages, iterations, callIdx, lastToolResult,
                    events, handed, outcome, toolLog, uttered, cause, issued,
                    inFlight, errorKey, rejection >>
    /\ UNCHANGED << streamVars, restVars >>

\* lines 141-159: without a hook, stamp the latency; then, in both cases,
\* emit response and resolve with lastResponse
Finalize ==
    /\ \/ /\ pc = "after"
          /\ ~lastResponse.nil
          /\ ~cfg.saveFunction
          /\ lastResponse' = Stamp(lastResponse)
       \/ /\ pc = "emit"
          /\ lastResponse' = lastResponse
    /\ events' = Append(events, "response")
    /\ outcome' = "resolved"
    /\ pc' = "done"
    /\ UNCHANGED << cfg, input, messages, iterations, callIdx, lastToolResult,
                    handed, toolLog, uttered, cause, issued, saved, inFlight,
                    errorKey, rejection >>
    /\ UNCHANGED << streamVars, restVars >>

Next ==
    \/ Start
    \/ WhileTest
    \/ HistoryRejected
    \/ VendorFails
    \/ GenerateReturns
    \/ ToolMissing
    \/ ToolStart
    \/ ToolReturns
    \/ ToolSaveRejects
    \/ ToolThrows
    \/ AfterTools
    \/ CatchError
    \/ NoResponseThrow
    \/ FinalSave
    \/ Finalize

Spec == Init /\ [][Next]_vars

----------------------------------------------------------------------------
(* One generate call of an adapter as a state machine *)

\* the variables of the run while only a generate call is followed
RunIdle ==
    /\ cfg = [max_tool_iterations |-> [set |-> FALSE, n |-> 0],
              provider |-> "openai", tools |-> FALSE, saveFunction |-> FALSE,
              output_schema |-> FALSE, prompt |-> << >>]
    /\ input = [isArray |-> FALSE, text |-> << "q" >>, history |-> << >>]
    /\ pc = "idle"
    /\ messages = << >>
    /\ iterations = 0
    /\ lastResponse = NoResponse
    /\ callIdx = 0
    /\ lastToolResult = Null
    /\ events = << >>
    /\ handed = << >>
    /\ outcome = "pending"
    /\ toolLog = << >>
    /\ uttered = << >>
    /\ cause = "none"
    /\ issued = 0
    /\ saved = << >>
    /\ inFlight = {}
    /\ errorKey = ""
    /\ rejection = NoRejection

\* generate has called the vendor and enters its for await loop
StreamInit ==
    /\ RunIdle
    /\ RestIdle
    /\ adapter \in Providers
    /\ imagine \in BOOLEAN
    /\ adapter # "grok" => ~imagine
    /\ outputSchema \in BOOLEAN
    /\ gpc = "streaming"
    /\ callNo = 1
    /\ arrived = << >>
    /\ fed = 0
    /\ fullContent = << >>
    /\ toolCalls = << >>
    /\ usage = ZeroUsage
    /\ tokens = << >>
    /\ warned = FALSE
    /\ response = NoResult
    /\ first = NoResult
    /\ now = 1

\* the chunks the stream can deliver next: any chunk of the vendor in the
\* first call, the recorded chunk in the second
Feed(chunks) ==
    IF callNo = 1
    THEN IF Len(arrived) < MaxChunks THEN chunks ELSE {}
    ELSE IF fed < Len(arrived) THEN { arrived[fed + 1] } ELSE {}

\* the readings of Date.now() of n successive pushes
Readings(n) ==
    { r \in [1..n -> now..MaxClock] : \A i \in 1..(n - 1) : r[i] <= r[i + 1] }

\* grok.ts 30-91: generate of a Grok image model: the images API is called,
\* onToken is called once with the markdown of all images, which is the
\* content; no tool calls, usage of zeros. A second call is answered as the
\* first was.
GrokImages ==
    /\ gpc = "streaming"
    /\ ImageMode(adapter, imagine)
    /\ \E images \in IF callNo = 1 THEN ImageResponses
                     ELSE { arrived[1].images } :
          LET content == ImagesContent(images, 1) IN
          /\ tokens' = Append(tokens, [text |-> content, accumulated |-> content])
          /\ response' = [content |-> Str(content), tool_calls |-> << >>,
                          usage |-> ZeroUsage]
          /\ arrived' = IF callNo = 1 THEN << ImageResponse(images) >> ELSE arrived
    /\ fed' = fed + 1
    /\ gpc' = "settled"
    /\ UNCHANGED << adapter, imagine, outputSchema, callNo, fullContent,
                    toolCalls, usage, warned, first, now >>
    /\ UNCHANGED << runVars, restVars >>

\* grok.ts 58-61, 65: the images API answers with an error: generate rejects
GrokImagesFail ==
    /\ gpc = "streaming"
    /\ ImageMode(adapter, imagine)
    /\ gpc' = "failed"
    /\ UNCHANGED << adapter, imagine, outputSchema, callNo, arrived, fed,
                    fullContent, toolCalls, usage, tokens, warned, response,
                    first, now >>
    /\ UNCHANGED << runVars, restVars >>

\* openai.ts 126-160, grok.ts: one pass of the for await loop
IndexedChunk ==
    /\ gpc = "streaming"
    /\ adapter \in IndexedAdapters
    /\ ~ImageMode(adapter, imagine)
    /\ \E chunk \in Feed(IndexedChunks) :
          /\ fullContent' = TextAfter(fullContent, ChunkText(adapter, chunk))
          /\ tokens' = TokensAfter(tokens, fullContent, ChunkText(adapter, chunk))
          /\ toolCalls' = StoreDeltas(toolCalls, chunk.tool_calls)
          /\ usage' = UsageAfter(adapter, usage, chunk)
          /\ arrived' = IF callNo = 1 THEN Append(arrived, chunk) ELSE arrived
    /\ fed' = fed + 1
    /\ UNCHANGED << adapter, imagine, outputSchema, gpc, callNo, warned, response, first, now >>
    /\ UNCHANGED << runVars, restVars >>

\* google.ts 214-283: one pass of the for await loop
WholeChunk ==
    /\ gpc = "streaming"
    /\ adapter \notin IndexedAdapters
    /\ \E chunk \in Feed(WholeChunks) :
       \E readings \in Readings(CallParts(chunk.parts)) :
          /\ fullContent' =
                ImagesAfter(TextAfter(fullContent, ChunkText(adapter, chunk)),
                            chunk.parts)
          /\ tokens' = TokensAfter(tokens, fullContent, ChunkText(adapter, chunk))
          /\ toolCalls' = PushCalls(toolCalls, chunk.parts, readings)
          /\ usage' = UsageAfter(adapter, usage, chunk)
          /\ now' = IF readings = << >> THEN now ELSE readings[Len(readings)]
          /\ arrived' = IF callNo = 1 THEN Append(arrived, chunk) ELSE arrived
    /\ fed' = fed + 1
    /\ UNCHANGED << adapter, imagine, outputSchema, gpc, callNo, warned, response, first >>
    /\ UNCHANGED << runVars, restVars >>

\* the stream is exhausted (the second call reads the whole recorded stream)
StreamOver ==
    /\ gpc = "streaming"
    /\ ~ImageMode(adapter, imagine)
    /\ callNo = 2 => fed = Len(arrived)

\* openai.ts 162-192, google.ts 301-320: parse structured output, map the
\* tool calls, return
StreamEnds ==
    /\ StreamOver
    /\ adapter \in IndexedAdapters => ArgumentsParse(toolCalls)
    /\ warned' = Warns(adapter, outputSchema, fullContent, toolCalls)
    /\ response' = GenerateResult(adapter, outputSchema, fullContent, toolCalls, usage)
    /\ gpc' = "settled"
    /\ UNCHANGED << adapter, imagine, outputSchema, callNo, arrived, fed, fullContent,
                    toolCalls, usage, tokens, first, now >>
    /\ UNCHANGED << runVars, restVars >>

\* openai.ts 176-180: JSON.parse of accumulated arguments throws: generate
\* rejects
ArgumentsRejected ==
    /\ StreamOver
    /\ adapter \in IndexedAdapters
    /\ ~ArgumentsParse(toolCalls)
    /\ gpc' = "failed"
    /\ UNCHANGED << adapter, imagine, outputSchema, callNo, arrived, fed, fullContent,
                    toolCalls, usage, tokens, warned, response, first, now >>
    /\ UNCHANGED << runVars, restVars >>

\* the delta at position d of chunk c is the first of the stream with its
\* index
FirstOfIndex(chunks, c, d) ==
    LET i == chunks[c].tool_calls[d].index IN
    /\ \A c2 \in 1..(c - 1) :
          \A d2 \in DOMAIN chunks[c2].tool_calls :
             chunks[c2].tool_calls[d2].index # i
    /\ \A d2 \in 1..(d - 1) : chunks[c].tool_calls[d2].index # i

\* openai.ts 137-143, grok.ts: toolCalls[index] = tc keeps the delta object
\* of the chunk itself and the merges append to it: once the stream is
\* folded, the first delta of each index holds what was accumulated
ChunksAfterFold(provider, chunks, calls) ==
    IF provider \notin IndexedAdapters
    THEN chunks
    ELSE [c \in DOMAIN chunks |->
            [chunks[c] EXCEPT
               !.tool_calls =
                  [d \in DOMAIN chunks[c].tool_calls |->
                     IF FirstOfIndex(chunks, c, d)
                     THEN calls[chunks[c].tool_calls[d].index + 1]
                     ELSE chunks[c].tool_calls[d]]]]

\* generate is called again and its vendor stream delivers the same chunks:
\* the objects the first call was given, as the fold left them, or new
\* objects with the values those had
SecondCall ==
    /\ gpc = "settled"
    /\ callNo = 1
    /\ first' = response
    /\ callNo' = 2
    /\ gpc' = "streaming"
    /\ fed' = 0
    /\ fullContent' = << >>
    /\ toolCalls' = << >>
    /\ usage' = ZeroUsage
    /\ tokens' = << >>
    /\ warned' = FALSE
    /\ response' = NoResult
    /\ \E same \in BOOLEAN :
          arrived' = IF same
                     THEN ChunksAfterFold(adapter, arrived, toolCalls)
                     ELSE arrived
    /\ UNCHANGED << adapter, imagine, outputSchema, now >>
    /\ UNCHANGED << runVars, restVars >>

StreamNext ==
    \/ GrokImages
    \/ GrokImagesFail
    \/ IndexedChunk
    \/ WholeChunk
    \/ StreamEnds
    \/ ArgumentsRejected
    \/ SecondCall

StreamSpec == StreamInit /\ [][StreamNext]_vars

----------------------------------------------------------------------------
(* Vocabulary of the properties *)

\* max_tool_iterations is 1: configured as 1, or left at its default
CapIsOne ==
    \/ ~cfg.max_tool_iterations.set
    \/ cfg.max_tool_iterations.n = 1

\* max_tool_iterations is configured above 1
CapAboveOne == cfg.max_tool_iterations.set /\ cfg.max_tool_iterations.n > 1

Count(name) == Cardinality({ i \in DOMAIN events : events[i] = name })

LastEvent == IF events = << >> THEN "" ELSE events[Len(events)]

Settled == pc = "done"
Done == Settled /\ outcome = "resolved" /\ LastEvent = "response"
Failed == Settled /\ outcome = "rejected" /\ LastEvent = "error"

\* number of provider.generate calls of the run so far
GenerateCalls == Len(handed)

\* messages the caller supplied (or the one built from the caller's text)
InitialLen == Len(InitialMessages(cfg, input))

IsErrorMessage(m, f) ==
    /\ m.role = "tool"
    /\ m.tool_call_id = f.id
    /\ m.content.kind = "string"
    /\ m.content.s # << >>
    /\ Head(m.content.s) = "Error: "
    /\ Tail(m.content.s) = f.value.s

Failures == { i \in DOMAIN toolLog : ~toolLog[i].ok }

\* tool executions that returned
Returned == { i \in DOMAIN toolLog : toolLog[i].ok }

Max(S) == CHOOSE x \in S : \A y \in S : y <= x

\* the first message of the history that the adapter cannot map
Unmappable(i) ==
    /\ messages[i].role = "tool"
    /\ TypeofString(messages[i].content)
    /\ ~JSONparses(messages[i].content.s)

FirstUnmappable(i) == Unmappable(i) /\ \A j \in 1..(i - 1) : ~Unmappable(j)

----------------------------------------------------------------------------
(* C1: for every max_tool_iterations, a run whose adapter and tools return  *)
(* or fail ends in DONE (response emitted, resolved) or in ERROR (error     *)
(* emitted, rejected): it can stop nowhere else. The graph of a run has no  *)
(* cycle (iterations, callIdx and pc only advance), so a run that cannot    *)
(* stop elsewhere reaches one of the two.                                   *)
C1_EndsInDoneOrError == Done \/ Failed \/ ENABLED Next

(* C2 as stated: the number of generate calls never exceeds                 *)
(* max_tool_iterations (read for the values that can count calls, those     *)
(* from 0 up), and is exactly one when it is unset or 1.                    *)
C2_AsStated ==
    /\ (cfg.max_tool_iterations.set /\ cfg.max_tool_iterations.n >= 0)
          => GenerateCalls <= cfg.max_tool_iterations.n
    /\ (Settled /\ CapIsOne) => GenerateCalls = 1

\* the largest number of generate calls a configuration allows
CallCeiling ==
    IF ~cfg.max_tool_iterations.set \/ cfg.max_tool_iterations.n = 0 THEN 1
    ELSE IF cfg.max_tool_iterations.n < 0 THEN 0
    ELSE cfg.max_tool_iterations.n

(* C2 amended: the number of generate calls never exceeds                   *)
(* max_tool_iterations when that is positive, is exactly one when it is     *)
(* unset, 0 or 1 (0 counts as unset), and is zero when it is negative.      *)
C2_GenerateCallsBounded ==
    /\ GenerateCalls <= CallCeiling
    /\ (Settled /\ CallCeiling <= 1) => GenerateCalls = CallCeiling

C2_Witness ==
    /\ Settled
    /\ cfg.max_tool_iterations.set
    /\ cfg.max_tool_iterations.n = MaxCap
    /\ GenerateCalls = MaxCap

(* C3: a run that rejects has emitted exactly one error and no response; a  *)
(* run that resolves has emitted exactly one response and no error.         *)
C3_OneTerminalNotification ==
    /\ (Settled /\ outcome = "rejected")
          => (Count("error") = 1 /\ Count("response") = 0)
    /\ (Settled /\ outcome = "resolved")
          => (Count("response") = 1 /\ Count("error") = 0)

(* C4 as stated: with a cap of 1 and a response without tool calls, content *)
(* and message are the same text.                                           *)
C4_AsStated ==
    (Done /\ CapIsOne /\ lastResponse.tool_calls = << >>)
       => /\ lastResponse.content.kind = "string"
          /\ lastResponse.message = lastResponse.content

(* C4 amended: with a cap of 1 and a response without tool calls, content   *)
(* and message are both the model's text, except when an output schema is   *)
(* configured and the text parses as JSON: then content is the parsed       *)
(* value, and message is that value when it is a string (the text was a     *)
(* JSON string) and absent when it is not.                                  *)
C4_ContentIsMessage ==
    (Done /\ CapIsOne /\ lastResponse.tool_calls = << >>)
       => IF cfg.output_schema /\ JSONparses(uttered)
          THEN /\ lastResponse.content = JSONparse(uttered)
               /\ lastResponse.message =
                     IF TypeofString(JSONparse(uttered))
                     THEN JSONparse(uttered)
                     ELSE Undefined
          ELSE /\ lastResponse.content = Str(uttered)
               /\ lastResponse.message = Str(uttered)

C4_Witness ==
    /\ Done /\ CapIsOne /\ lastResponse.tool_calls = << >>
    /\ cfg.output_schema
    /\ uttered = << "\"", "hi", "\"" >>
    /\ lastResponse.content = Str(<< "hi" >>)
    /\ lastResponse.message = Str(<< "hi" >>)

(* C5: with a cap of 1 and exactly one tool call, whose tool returned, the  *)
(* final content is the tool's return value, whatever it is, and message is *)
(* the model's text.                                                        *)
C5_ContentIsToolResult ==
    (/\ Done /\ CapIsOne
     /\ Len(lastResponse.tool_calls) = 1
     /\ Len(toolLog) = 1
     /\ toolLog[1].ok)
       => /\ lastResponse.content = toolLog[1].value
          /\ lastResponse.message = Str(uttered)

(* C6 as stated: with a cap of 1 and several tool calls (of which at least  *)
(* one returned, none of them null), content is the result of the last call *)
(* in provider order.                                                       *)
C6_AsStated ==
    (/\ Done /\ CapIsOne
     /\ Len(lastResponse.tool_calls) >= 2
     /\ Returned # {}
     /\ \A i \in Returned : toolLog[i].value # Null)
       => \E i \in DOMAIN toolLog :
             /\ toolLog[i].call = Len(lastResponse.tool_calls)
             /\ toolLog[i].ok
             /\ lastResponse.content = toolLog[i].value

(* C6 amended: with a cap of 1 and several tool calls, content is the       *)
(* value returned by the last call, in provider order, whose tool ran and   *)
(* returned (calls that raise or name no configured tool are passed over);  *)
(* when no call returned, or that value is null, content stays the model's  *)
(* text.                                                                    *)
C6_LastResultIsContent ==
    (/\ Done /\ CapIsOne /\ cfg.tools
     /\ Len(lastResponse.tool_calls) >= 2)
       => IF Returned = {} \/ toolLog[Max(Returned \cup {0})].value = Null
          THEN lastResponse.content = Str(uttered)
          ELSE lastResponse.content = toolLog[Max(Returned)].value

C6_Witness ==
    /\ Done /\ CapIsOne
    /\ Len(lastResponse.tool_calls) = 2
    /\ Returned = {1, 2}
    /\ toolLog[2].value # Null
    /\ toolLog[1].value # toolLog[2].value
    /\ lastResponse.content = toolLog[2].value

(* C7: in the history of a run, so in every history handed to the adapter,  *)
(* each tool-role message the orchestrator appended carries a tool_call_id  *)
(* that is an id of the tool_calls of the closest assistant-role message    *)
(* before it.                                                               *)
C7_ToolMessageAnswersCall ==
    pc # "start" =>
       \A i \in (InitialLen + 1)..Len(messages) :
          messages[i].role = "tool" =>
             \E j \in 1..(i - 1) :
                /\ messages[j].role = "assistant"
                /\ \A k \in (j + 1)..(i - 1) : messages[k].role # "assistant"
                /\ \E c \in DOMAIN messages[j].tool_calls :
                      messages[j].tool_calls[c].id = messages[i].tool_call_id

C7_Witness ==
    /\ GenerateCalls = 2
    /\ handed[2] > InitialLen + 1
    /\ messages[handed[2]].role = "tool"

(* C8: in a run of one turn in which the one call's tool returned, the      *)
(* notifications are start, tool_start, tool_end, response in that order    *)
(* and the response's content is the tool's returned value.                 *)
C8_ToolThenResponse ==
    (/\ Settled /\ CapIsOne
     /\ Len(lastResponse.tool_calls) = 1
     /\ Len(toolLog) = 1
     /\ toolLog[1].ok)
       => /\ events = << "start", "tool_start", "tool_end", "response" >>
          /\ lastResponse.content = toolLog[1].value

(* C9: with a cap of 1, for every tool.execute that raised, a tool-role     *)
(* message for that call whose text is the error prefix followed by the     *)
(* error's message is in the history, and the run does not take the error   *)
(* path: it can stop only once it has resolved and emitted response.        *)
C9_ToolFailureBecomesMessage ==
    (CapIsOne /\ Failures # {}) =>
       /\ \A i \in Failures :
             /\ toolLog[i].at \in DOMAIN messages
             /\ IsErrorMessage(messages[toolLog[i].at], toolLog[i])
       /\ pc # "catch"
       /\ Count("error") = 0
       /\ Done \/ ENABLED Next

C9_Witness == Done /\ CapIsOne /\ Failures # {}

(* C10: with a cap above 1, for every adapter, a tool.execute that raised   *)
(* before the cap was reached leaves an error-text message that the next    *)
(* generate call receives, and that message never makes the run fail.       *)
C10_ToolFailureNeverFatal ==
    CapAboveOne =>
       \A i \in Failures :
          toolLog[i].iteration < cfg.max_tool_iterations.n =>
             /\ IsErrorMessage(messages[toolLog[i].at], toolLog[i])
             /\ GenerateCalls > toolLog[i].iteration
                   => handed[toolLog[i].iteration + 1] >= toolLog[i].at
             /\ ~(cause = "history" /\ FirstUnmappable(toolLog[i].at))

(* C11 as stated: when an output schema is supplied and the text of the     *)
(* run's last generate call (which returned, and after which nothing        *)
(* failed) is not valid structured data, the run ends with the response     *)
(* notification and content is that raw text.                               *)
C11_AsStated ==
    (/\ Settled /\ cfg.output_schema
     /\ ~lastResponse.nil /\ cause = "none"
     /\ uttered # << >> /\ ~JSONparses(uttered))
       => /\ Done
          /\ lastResponse.content = Str(uttered)

(* C11 amended: when an output schema is supplied, the text of the last     *)
(* generate call is not valid structured data and that response dispatches  *)
(* no tool call, the run does not take the error path (it can stop only     *)
(* once it has resolved and emitted response) and content is the raw text.  *)
(* When that response dispatches tool calls under a cap of 1 and the run    *)
(* ends with response, content is the value returned by the last call that  *)
(* returned, or the raw text when no call returned or that value is null.   *)
C11_RawTextOnParseFailure ==
    /\ (/\ pc \in {"after", "done"} /\ cfg.output_schema
         /\ ~lastResponse.nil
         /\ ~Dispatches(cfg, lastResponse)
         /\ ~JSONparses(uttered))
           => /\ lastResponse.content = Str(uttered)
              /\ Count("error") = 0
              /\ Done \/ ENABLED Next
    /\ (/\ Done /\ CapIsOne /\ cfg.output_schema
         /\ Dispatches(cfg, lastResponse)
         /\ ~JSONparses(uttered))
           => IF Returned = {} \/ toolLog[Max(Returned \cup {0})].value = Null
              THEN lastResponse.content = Str(uttered)
              ELSE lastResponse.content = toolLog[Max(Returned)].value

C11_Witness ==
    /\ Done /\ cfg.output_schema
    /\ ~Dispatches(cfg, lastResponse)
    /\ uttered = << "hi" >>
    /\ lastResponse.content = Str(uttered)

----------------------------------------------------------------------------
(* Claims about the adapters, checked on StreamSpec *)

(* C12: when generate was given an output schema and accumulated no tool    *)
(* call, the content it returns is the parsed value if the accumulated text *)
(* parses and the parsed value passes the schema, and the raw accumulated   *)
(* text if the parse fails or the schema rejects the parsed value.          *)
C12_ValidatedOrRawText ==
    (gpc = "settled" /\ outputSchema /\ toolCalls = << >>) =>
       response.content =
          IF JSONparses(fullContent) /\ SchemaAccepts(JSONparse(fullContent))
          THEN JSONparse(fullContent)
          ELSE Str(fullContent)

\* the chunks the running call has consumed
Consumed == SubSeq(arrived, 1, fed)

\* the tool-call fragments of the consumed chunks that bear index i
FragmentsOf(i) ==
    SelectSeq([k \in 1..fed |-> arrived[k].tool_calls],
              LAMBDA ds : ds # << >> /\ ds[1].index = i)

\* the texts of one field over a sequence of fragments, concatenated
RECURSIVE Pieces(_, _)
Pieces(fs, field) ==
    IF fs = << >> THEN << >>
    ELSE (IF fs[1][1][field].kind = "string" THEN fs[1][1][field].s ELSE << >>)
            \o Pieces(Tail(fs), field)

(* C13: in the OpenAI and Grok adapters, after any sequence of tool-call    *)
(* fragments in which the first fragment of each index carries a name, the  *)
(* call accumulated for an index has as name the concatenation, in arrival  *)
(* order, of the name pieces of that index, and as arguments text the       *)
(* concatenation of its arguments pieces (when it received any), also when  *)
(* the first fragment carried no arguments.                                 *)
C13_FragmentsConcatenate ==
    (/\ adapter \in IndexedAdapters /\ gpc # "idle"
     /\ \A i \in 0..1 :
           FragmentsOf(i) # << >> => FragmentsOf(i)[1][1].name.kind = "string")
       => \A i \in 0..1 :
             FragmentsOf(i) # << >> =>
                /\ i + 1 \in DOMAIN toolCalls
                /\ toolCalls[i + 1].name = Str(Pieces(FragmentsOf(i), "name"))
                /\ Pieces(FragmentsOf(i), "arguments") # << >> =>
                      toolCalls[i + 1].arguments =
                         Str(Pieces(FragmentsOf(i), "arguments"))

\* the usage report of the k-th chunk of the stream, or null
ReportAt(k) ==
    IF adapter \in IndexedAdapters THEN arrived[k].usage
    ELSE arrived[k].usageMetadata

\* positions of the consumed chunks that carried a usage report
Reported == { k \in 1..fed : ReportAt(k) # Null }

\* a vendor's report in the fields of AgentResponse.usage
AsUsage(report) ==
    IF adapter \in IndexedAdapters
    THEN [input_tokens |-> report.prompt_tokens,
          output_tokens |-> report.completion_tokens,
          total_tokens |-> report.total_tokens]
    ELSE [input_tokens |-> report.promptTokenCount,
          output_tokens |-> report.candidatesTokenCount,
          total_tokens |-> report.totalTokenCount]

(* C14: the usage of the response a generate call returns is the last usage *)
(* report of its stream, whatever reports came before it, and all zeros    *)
(* when the stream carried no report.                                       *)
C14_UsageIsLastReport ==
    gpc = "settled" =>
       response.usage = IF Reported = {} THEN ZeroUsage
                        ELSE AsUsage(ReportAt(Max(Reported)))

C14_Witness ==
    /\ gpc = "settled"
    /\ Cardinality(Reported) = 2
    /\ \E k \in Reported : ReportAt(k) # ReportAt(Max(Reported))
    /\ response.usage = AsUsage(ReportAt(Max(Reported)))

(* C15: a second generate call whose stream delivers the same chunks in the *)
(* same order as the first returns the same text and the same list of tool  *)
(* calls: same names, same arguments, same ids.                             *)
C15_SameStreamSameResult ==
    (callNo = 2 /\ gpc = "settled") =>
       /\ response.content = first.content
       /\ response.tool_calls = first.tool_calls

\* the non-empty texts of the parts of a Google chunk, in order
RECURSIVE PartTexts(_)
PartTexts(parts) ==
    IF parts = << >> THEN << >>
    ELSE (IF Truthy(Head(parts).text) THEN << Head(parts).text.s >> ELSE << >>)
            \o PartTexts(Tail(parts))

\* the incremental text fragments a chunk carries, in order
ChunkFragments(chunk) ==
    IF adapter \in IndexedAdapters
    THEN IF Truthy(chunk.content) THEN << chunk.content.s >> ELSE << >>
    ELSE PartTexts(chunk.parts)

\* the incremental text fragments of a sequence of chunks, in arrival order
RECURSIVE StreamFragments(_)
StreamFragments(chunks) ==
    IF chunks = << >> THEN << >>
    ELSE ChunkFragments(Head(chunks)) \o StreamFragments(Tail(chunks))

\* the concatenation of a sequence of texts
RECURSIVE Concat(_)
Concat(texts) ==
    IF texts = << >> THEN << >> ELSE Head(texts) \o Concat(Tail(texts))

\* whether some consumed chunk carried generated image data
ImageSeen ==
    \E k \in 1..fed :
       /\ adapter \notin IndexedAdapters
       /\ \E i \in DOMAIN arrived[k].parts :
             arrived[k].parts[i].inlineData # Undefined

(* C16: at every point of a generate call, and once it has settled, the     *)
(* texts onToken was invoked with are exactly the incremental text          *)
(* fragments the stream has delivered so far, each once, in arrival order.  *)
C16_OneTokenPerFragment ==
    gpc \in {"streaming", "settled", "failed"} =>
       [k \in DOMAIN tokens |-> tokens[k].text] = StreamFragments(Consumed)

(* C17: in a stream without generated images the accumulated text is at     *)
(* every point the concatenation, in arrival order, of every incremental    *)
(* text fragment delivered so far, those that are not the first part of     *)
(* their chunk included; and when the call has settled, each fragment was   *)
(* handed to onToken while the accumulated text did not yet contain it.     *)
C17_TextIsAllFragments ==
    /\ (gpc \in {"streaming", "settled", "failed"} /\ ~ImageSeen) =>
          fullContent = Concat(StreamFragments(Consumed))
    /\ gpc = "settled" =>
          \A k \in DOMAIN tokens :
             tokens[k].accumulated =
                Concat([j \in 1..(k - 1) |-> tokens[j].text])

----------------------------------------------------------------------------
(* Claims about the persistence hook and the dispatch of tools, on Spec *)

\* some call of saveFunction has thrown into the code around it
HookFailed == \E i \in DOMAIN saved : ~saved[i].ok

\* tool-role messages the run has appended to the history
ToolMessages ==
    { i \in (InitialLen + 1)..Len(messages) : messages[i].role = "tool" }

(* C18: once a call of the persistence hook has failed, also where the save *)
(* has no try/catch of its own (the assistant tool-call message, a tool's   *)
(* result), the failure is not what the run's catch block handles (it does  *)
(* not move the run to ERROR), and the history holds what it holds without  *)
(* the failure: one tool message per executed call.                         *)
C18_HookFailureSwallowed ==
    HookFailed =>
       /\ cause # "hook"
       /\ Cardinality(ToolMessages) = Len(toolLog)

\* the messages the hook has been given, in order
SavedMessages == [i \in DOMAIN saved |-> saved[i].message]

\* the messages the run appended to the history during tool dispatch
Appended == SubSeq(messages, InitialLen + 1, Len(messages))

(* C19: with a hook that never fails, the hook is given the initial user    *)
(* message first (bare string input only) and before any generate call; and *)
(* when the run has resolved, the messages it was given are that message,   *)
(* then every message appended to the history during tool dispatch          *)
(* (error-text results included), each once and in the order appended, then *)
(* the final assistant message.                                             *)
C19_HookSeesEveryMessage ==
    (cfg.saveFunction /\ ~HookFailed) =>
       /\ (pc # "start" /\ SavesInitial(cfg, input)) =>
             /\ saved # << >>
             /\ saved[1].message = messages[InitialLen]
             /\ GenerateCalls = 0 => Len(saved) = 1
       /\ Done =>
             SavedMessages =
                (IF SavesInitial(cfg, input)
                 THEN << messages[InitialLen] >> ELSE << >>)
                \o Appended
                \o << FinalAssistantMessage(lastResponse) >>

\* entries of toolLog made in the current turn
ThisTurn == { i \in DOMAIN toolLog : toolLog[i].iteration = iterations }

(* C20: the tool calls of a turn are executed one at a time in the order    *)
(* the provider returned them: at most one execution is outstanding, a      *)
(* tool_start is emitted only when every earlier execution has returned or  *)
(* raised, executions settle in provider order, and their tool messages     *)
(* are appended to the history in that order.                               *)
C20_ToolsRunInOrder ==
    /\ Cardinality(inFlight) <= 1
    /\ Count("tool_start") = Len(toolLog) + Cardinality(inFlight)
    /\ \A k \in inFlight :
          \A i \in ThisTurn : toolLog[i].call < k
    /\ \A i, j \in DOMAIN toolLog :
          i < j =>
             /\ toolLog[i].iteration <= toolLog[j].iteration
             /\ toolLog[i].iteration = toolLog[j].iteration
                   => toolLog[i].call < toolLog[j].call
             /\ toolLog[i].at < toolLog[j].at
    /\ \A i \in DOMAIN toolLog :
          /\ messages[toolLog[i].at].role = "tool"
          /\ messages[toolLog[i].at].tool_call_id = toolLog[i].id

C20_Witness ==
    /\ Done
    /\ Len(toolLog) = 2
    /\ toolLog[1].iteration = toolLog[2].iteration
    /\ toolLog[1].call = 1 /\ toolLog[2].call = 2
    /\ toolLog[1].id # toolLog[2].id
    /\ ~toolLog[1].ok /\ toolLog[2].ok

\* a tool of the round in progress has been started
RoundStarted == pc \in { "tools", "toolsave" } /\ (inFlight # {} \/ ThisTurn # {})

\* places of the history, past the input, that hold the tool-call message of
\* the response in hand
RoundMessageAt ==
    { i \in (InitialLen + 1)..Len(messages) :
         messages[i] = AssistantMessage(lastResponse) }

(* C21: in a dispatch round, when a tool has been started (tool_start        *)
(* emitted, execution begun), the assistant tool-call message of the round   *)
(* is already in the history, ahead of every tool message of the round, and, *)
(* with a hook configured, the hook was called with that message and         *)
(* returned, and no save other than those of the round's tool results        *)
(* follows it.                                                               *)
C21_AssistantSavedBeforeTools ==
    RoundStarted =>
       \E i \in RoundMessageAt :
          /\ \A j \in ThisTurn : toolLog[j].at > i
          /\ \A j \in (i + 1)..Len(messages) : messages[j].role = "tool"
          /\ cfg.saveFunction =>
                \E s \in DOMAIN saved :
                   /\ saved[s] = Save("assistant", messages[i], TRUE)
                   /\ \A t \in (s + 1)..Len(saved) : saved[t].point = "tool"

C21_Witness ==
    /\ RoundStarted
    /\ cfg.saveFunction
    /\ inFlight # {}
    /\ ThisTurn # {}
    /\ \E i \in DOMAIN saved : saved[i].point = "tool"

\* the tag the taxonomy gives to a failure of each kind
TaxonomyKey(thrown) ==
    CASE thrown = "network" -> "network_error"
      [] thrown = "auth"    -> "auth_error"
      [] OTHER              -> "execution_error"

(* C23: when the run has failed, the error_key of the error notification is  *)
(* network_error for a connection failure, auth_error for an authentication  *)
(* failure, and execution_error only for any other exception.                *)
C23_ErrorKeyTellsKind ==
    Failed => errorKey = TaxonomyKey(cause)

\* earlier is the exact beginning of later
IsPrefix(earlier, later) ==
    /\ Len(earlier) <= Len(later)
    /\ SubSeq(later, 1, Len(earlier)) = earlier

(* C26: once the run has built its history, every step leaves the history   *)
(* it had as the exact beginning of the history it has next: messages are   *)
(* only added at the end, none is changed or removed, so the history given  *)
(* to a generate call begins with the history given to the call before.     *)
C26_HistoryAppendOnly ==
    [][ pc # "start" => IsPrefix(messages, messages') ]_vars

C26_Witness ==
    /\ GenerateCalls = 2
    /\ handed[2] > handed[1] + 1
    /\ Len(messages) = handed[2]

\* a dispatch round has just ended: the for..of loop over the calls of the
\* response in hand is over
RoundOver == pc \in { "while", "after" } /\ Dispatches(cfg, lastResponse)

\* place in the history of the last assistant message the run appended
LastAssistantAt ==
    Max({ i \in (InitialLen + 1)..Len(messages) : messages[i].role = "assistant" })

\* the tool-role messages of the round that just ended which answer the id
RoundAnswers(id) ==
    { i \in (LastAssistantAt + 1)..Len(messages) :
         messages[i].role = "tool" /\ messages[i].tool_call_id = id }

\* the calls of the response in hand that carry the id
CallsWithId(id) ==
    { k \in DOMAIN lastResponse.tool_calls : lastResponse.tool_calls[k].id = id }

(* C27: when a dispatch round is over, every tool call of the round is       *)
(* answered by exactly one tool-role message carrying its id: the round      *)
(* wrote as many tool messages with an id as the response has calls with it, *)
(* also for a call whose tool is not configured and when saving the result   *)
(* failed.                                                                   *)
C27_OneToolMessagePerCall ==
    RoundOver =>
       \A k \in DOMAIN lastResponse.tool_calls :
          LET id == lastResponse.tool_calls[k].id IN
          Cardinality(RoundAnswers(id)) = Cardinality(CallsWithId(id))

\* the response in hand carries no tool call, or the agent has no tool set
NoDispatch == lastResponse.tool_calls = << >> \/ ~cfg.tools

\* tool executions of turns before the current one
EarlierTurns == { i \in DOMAIN toolLog : toolLog[i].iteration < iterations }

(* C28: tools are dispatched only for a response that carries tool calls    *)
(* while a tool set is configured. For any other response of a generate     *)
(* call that returned: no tool runs and no tool_start or tool_end is        *)
(* emitted in that turn, no message is added to the history handed to the   *)
(* call, the turn made one generate call, the response is kept as the       *)
(* adapter returned it, and the run ends resolved.                          *)
C28_DispatchNeedsCallsAndTools ==
    /\ pc \in { "tools", "toolsave" } => ~NoDispatch
    /\ (pc \in { "after", "emit", "done" } /\ ~lastResponse.nil /\ NoDispatch) =>
          /\ ThisTurn = {} /\ inFlight = {}
          /\ Count("tool_start") = Cardinality(EarlierTurns)
          /\ Count("tool_end") = Cardinality({ i \in EarlierTurns : toolLog[i].ok })
          /\ Len(messages) = handed[Len(handed)]
          /\ GenerateCalls = iterations
          /\ lastResponse.content =
                FinalContent(cfg.output_schema, uttered, lastResponse.tool_calls)
          /\ lastResponse.message = CaptureMessage(lastResponse.content)
          /\ pc = "done" => Done

C28_Witness ==
    /\ Done
    /\ lastResponse.tool_calls # << >>
    /\ ~cfg.tools
    /\ uttered # << >>

\* the last call of the hook was made with the final assistant message built
\* from the response in hand
FinalSaved ==
    /\ saved # << >>
    /\ saved[Len(saved)] =
          Save("final", FinalAssistantMessage(lastResponse), TRUE)

(* C29: finishing a run goes in this order: the latency is stamped into the *)
(* response; with a hook, the hook is called with the final assistant       *)
(* message, which carries the stamped latency, while response is not yet    *)
(* emitted and the run not yet resolved; then response is emitted and the   *)
(* run resolves with that response. Once response has been emitted, the     *)
(* final call of the hook has been made.                                    *)
C29_FinalSaveThenResponse ==
    /\ pc = "emit" =>
          /\ lastResponse.latency = "stamped"
          /\ FinalSaved
          /\ Count("response") = 0
          /\ outcome = "pending"
    /\ Count("response") > 0 =>
          /\ lastResponse.latency = "stamped"
          /\ cfg.saveFunction => FinalSaved
          /\ Done
    /\ (\E i \in DOMAIN saved : saved[i].point = "final") =>
          /\ saved[Len(saved)].point = "final"
          /\ saved[Len(saved)].message.latency = "stamped"
          /\ pc \in { "emit", "done" }
    /\ outcome = "resolved" => Count("response") = 1

C29_Witness ==
    /\ Done
    /\ cfg.saveFunction
    /\ FinalSaved
    /\ toolLog # << >>

\* places in tool_calls of the response in hand of the calls the run has
\* resolved: their tool was executed in the round of that response and its
\* result appended to the history
Dispatched == { toolLog[i].call : i \in { j \in ThisTurn : toolLog[j].ok } }

(* C30: the response a run resolves with carries in tool_calls only calls   *)
(* that are not resolved: a call whose tool the run has executed is not in  *)
(* the final response's tool_calls.                                         *)
C30_FinalCallsUnresolved ==
    Done => Dispatched = {}

----------------------------------------------------------------------------
(* Provider adapters: how generate builds the vendor request *)

\* file paths a caller configures: a markdown file and an image. The text of
\* a file is written as the token that names it.
FileLists == { << >>, << "notes.md" >>, << "pic.png" >>,
               << "notes.md", "pic.png" >> }

\* validateFileExtension(filePath, ['.md', '.markdown'])
IsMarkdownFile(f) == f = "notes.md"

\* validateFileExtension(filePath, IMAGE_EXTENSIONS)
isImageFile(f) == f = "pic.png"

\* readMarkdownFiles(filePaths): the block of every markdown file of the
\* list, in order; files of another extension are skipped
readMarkdownFiles(filePaths) == SelectSeq(filePaths, IsMarkdownFile)

\* histories generate can be given: a first user message; an exchange that
\* ends with a new user message; one that ends with a tool result (the turn
\* after a dispatch round); one that ends with the assistant's text
RequestHistories ==
    { << UserMessage(<< "q" >>) >>,
      PriorHistory,
      SubSeq(PriorHistory, 1, 3),
      << UserMessage(<< "q" >>),
         Message("assistant", Str(<< "hi" >>), << >>, NoId, "") >> }

\* prompt: string | AgentMessage[]
RequestPrompts ==
    { [isArray |-> FALSE, text |-> << "q" >>, history |-> << >>] }
    \cup { [isArray |-> TRUE, text |-> << >>, history |-> h] :
              h \in RequestHistories }

\* one message of the history as OpenAI and Grok send it
OpenAIMessage(m) ==
    CASE m.role = "assistant" ->
            [role |-> "assistant",
             content |-> IF Truthy(m.content) THEN m.content ELSE Null,
             tool_calls |->
                [i \in DOMAIN m.tool_calls |->
                    [id |-> m.tool_calls[i].id,
                     name |-> m.tool_calls[i].name,
                     arguments |->
                        IF TypeofString(m.tool_calls[i].arguments)
                        THEN m.tool_calls[i].arguments
                        ELSE Str(JSONstringify(m.tool_calls[i].arguments))]],
             tool_call_id |-> NoId]
      [] m.role = "tool" ->
            [role |-> "tool",
             content |-> IF TypeofString(m.content) THEN m.content
                         ELSE Str(JSONstringify(m.content)),
             tool_calls |-> << >>,
             tool_call_id |-> m.tool_call_id]
      [] OTHER ->
            [role |-> "user", content |-> m.content,
             tool_calls |-> << >>, tool_call_id |-> NoId]

\* userContent of the string prompt: the files' text, then the prompt, then
\* the JSON instruction
UserText(text, files, schema) ==
    (IF files # << >>
     THEN readMarkdownFiles(files) \o << "\n\n" >> \o text
     ELSE text)
    \o (IF schema THEN << "\n\nPlease respond with valid JSON." >> ELSE << >>)

\* the messages array of OpenAI and Grok (no system prompt)
OpenAIRequest(prompt, files, schema) ==
    IF prompt.isArray
    THEN [i \in DOMAIN prompt.history |-> OpenAIMessage(prompt.history[i])]
    ELSE << [role |-> "user",
             content |-> Str(UserText(prompt.text, files, schema)),
             tool_calls |-> << >>, tool_call_id |-> NoId] >>

\* parts of a Google content entry
GoogleText(text) == [kind |-> "text", name |-> "", value |-> Str(text)]
GoogleInlineData(file) ==
    [kind |-> "inlineData", name |-> "image/png", value |-> Str(<< file >>)]
GoogleFunctionCall(tc) ==
    [kind |-> "functionCall", name |-> tc.name, value |-> tc.arguments]
GoogleFunctionResponse(m) ==
    [kind |-> "functionResponse", name |-> m.name,
     value |-> IF TypeofString(m.content) THEN JSONparse(m.content.s)
               ELSE m.content]

\* one message of the history as Google is sent it
GoogleContent(m) ==
    IF m.role = "tool"
    THEN [role |-> "user", parts |-> << GoogleFunctionResponse(m) >>]
    ELSE [role |-> IF m.role = "assistant" THEN "model" ELSE "user",
          parts |-> [i \in DOMAIN m.tool_calls |->
                        GoogleFunctionCall(m.tool_calls[i])]
                    \o (IF Truthy(m.content)
                        THEN << [kind |-> "text", name |-> "",
                                 value |-> m.content] >>
                        ELSE << >>)]

\* files.some(f => isImageFile(f))
HasImages(files) == \E i \in DOMAIN files : isImageFile(files[i])

\* the parts Google is sent for the files: with an image in the list every
\* file is a part of its own, otherwise one text part holds all of them
FileParts(files) ==
    IF HasImages(files)
    THEN [i \in DOMAIN files |->
             IF isImageFile(files[i])
             THEN GoogleInlineData(files[i])
             ELSE GoogleText(<< "\n\nReference Context:\n" >>
                             \o readMarkdownFiles(<< files[i] >>))]
    ELSE << GoogleText(<< "\n\nReference Context:\n" >>
                       \o readMarkdownFiles(files)) >>

\* the contents array of Google
GoogleRequest(prompt, files) ==
    IF prompt.isArray
    THEN LET contents == [i \in DOMAIN prompt.history |->
                             GoogleContent(prompt.history[i])]
             n == Len(contents)
         IN  IF files # << >> /\ n > 0 /\ contents[n].role = "user"
             THEN [contents EXCEPT ![n].parts = @ \o FileParts(files)]
             ELSE contents
    ELSE IF files # << >> /\ HasImages(files)
         THEN << [role |-> "user",
                  parts |-> << GoogleText(prompt.text) >> \o FileParts(files)] >>
         ELSE IF files # << >>
         THEN << [role |-> "user",
                  parts |-> << GoogleText(readMarkdownFiles(files)
                                          \o << "\n\n" >> \o prompt.text) >>] >>
         ELSE << [role |-> "user", parts |-> << GoogleText(prompt.text) >>] >>

\* grok.ts 31-33: promptText of the images API: the contents of the user
\* messages joined by newlines, or the prompt string
RECURSIVE JoinedUserContents(_, _)
JoinedUserContents(history, first_) ==
    IF history = << >> THEN << >>
    ELSE IF Head(history).role = "user"
    THEN (IF first_ THEN << >> ELSE << "\n" >>)
         \o Head(history).content.s
         \o JoinedUserContents(Tail(history), FALSE)
    ELSE JoinedUserContents(Tail(history), first_)

PromptText(prompt) ==
    IF prompt.isArray THEN JoinedUserContents(prompt.history, TRUE)
    ELSE prompt.text

\* grok.ts 41-48, 66-71: the body of the images request: its prompt; files,
\* tools and output_schema are not read
ImagesRequest(prompt) ==
    << [role |-> "prompt", content |-> Str(PromptText(prompt)),
        tool_calls |-> << >>, tool_call_id |-> NoId] >>

\* generate has been called and is about to prepare its request
RequestInit ==
    /\ RunIdle
    /\ StreamIdle
    /\ ChainIdle
    /\ SSEIdle
    /\ PairIdle
    /\ rqpc = "called"
    /\ rqAdapter \in Providers
    /\ rqImagine \in BOOLEAN
    /\ rqAdapter # "grok" => ~rqImagine
    /\ rqFiles \in FileLists
    /\ rqPrompt \in RequestPrompts
    /\ rqSchema \in BOOLEAN
    /\ rqRequest = << >>

\* Grok with an image model: the request to the images API
GrokImagesRequest ==
    /\ rqpc = "called"
    /\ ImageMode(rqAdapter, rqImagine)
    /\ rqRequest' = ImagesRequest(rqPrompt)
    /\ rqpc' = "built"
    /\ UNCHANGED << rqAdapter, rqImagine, rqFiles, rqPrompt, rqSchema >>
    /\ UNCHANGED << runVars, streamVars, sseVars, pairVars, chainVars >>

\* OpenAI, Grok: "1. Prepare messages"
IndexedRequest ==
    /\ rqpc = "called"
    /\ rqAdapter \in IndexedAdapters
    /\ ~ImageMode(rqAdapter, rqImagine)
    /\ rqRequest' = OpenAIRequest(rqPrompt, rqFiles, rqSchema)
    /\ rqpc' = "built"
    /\ UNCHANGED << rqAdapter, rqImagine, rqFiles, rqPrompt, rqSchema >>
    /\ UNCHANGED << runVars, streamVars, sseVars, pairVars, chainVars >>

\* Google: "3. Prepare Contents"
WholeRequest ==
    /\ rqpc = "called"
    /\ rqAdapter \notin IndexedAdapters
    /\ rqRequest' = GoogleRequest(rqPrompt, rqFiles)
    /\ rqpc' = "built"
    /\ UNCHANGED << rqAdapter, rqImagine, rqFiles, rqPrompt, rqSchema >>
    /\ UNCHANGED << runVars, streamVars, sseVars, pairVars, chainVars >>

RequestNext ==
    \/ GrokImagesRequest
    \/ IndexedRequest
    \/ WholeRequest

RequestSpec == RequestInit /\ [][RequestNext]_vars

\* the tokens of a text
Tokens(text) == { text[i] : i \in DOMAIN text }

\* the entry of a request carries the content of the file
Carries(entry, f) ==
    IF rqAdapter \in IndexedAdapters
    THEN entry.content.kind = "string" /\ f \in Tokens(entry.content.s)
    ELSE \E i \in DOMAIN entry.parts :
            /\ entry.parts[i].kind \in { "text", "inlineData" }
            /\ f \in Tokens(entry.parts[i].value.s)

\* the files the adapter can resolve: markdown text for every vendor, image
\* bytes for the multimodal one
Resolvable(f) == IsMarkdownFile(f) \/ (rqAdapter = "google" /\ isImageFile(f))

\* places of the user turns of the request
UserTurns == { i \in DOMAIN rqRequest : rqRequest[i].role = "user" }

(* C22: when files are configured, the request an adapter sends carries the *)
(* content of every file it can resolve in its most recent user turn, for a *)
(* prompt string and for a message history.                                 *)
C22_FilesInLastUserTurn ==
    (rqpc = "built" /\ rqFiles # << >>) =>
       /\ UserTurns # {}
       /\ \A i \in DOMAIN rqFiles :
             Resolvable(rqFiles[i]) =>
                Carries(rqRequest[Max(UserTurns)], rqFiles[i])

----------------------------------------------------------------------------
(* The SSE bridge *)

\* the events bridgeToSSE attaches a listener to (lines 60-62)
BridgedEvents == { "token", "response", "error" }

\* payloads of the token notification
TokenPayloads == { "a", "b" }

\* a cleanup that leaves the token listener attached
CleanupTerminalOnly(attached) == attached \ { "response", "error" }

\* cleanup (lines 55-59): agent.off for the three listeners
Cleanup(attached) == attached \ BridgedEvents

\* sendEvent(event, data): res.write of one event
SendEvent(written, event, data) ==
    Append(written, [event |-> event, data |-> data])

\* wire length at the first cleanup
Detached(at) == IF detachedAt = -1 THEN at ELSE detachedAt

\* an agent that may be running or be run again, and a response nobody has
\* bridged yet
SSEInit ==
    /\ RunIdle
    /\ StreamIdle
    /\ ChainIdle
    /\ RequestIdle
    /\ PairIdle
    /\ ssepc = "unbridged"
    /\ listeners = {}
    /\ wire = << >>
    /\ ended = FALSE
    /\ closed = FALSE
    /\ emitted = 0
    /\ fired = FALSE
    /\ detachedAt = -1

\* lines 28-67: bridgeToSSE(res, agent) attaches its listeners and hooks close
BridgeToSSE ==
    /\ ssepc = "unbridged"
    /\ ssepc' = "bridged"
    /\ listeners' = BridgedEvents
    /\ UNCHANGED << wire, ended, closed, emitted, fired, detachedAt >>
    /\ UNCHANGED << runVars, streamVars, requestVars, pairVars, chainVars >>

\* the agent emits token: tokenListener, if attached, writes it (lines 39-41)
EmitToken ==
    /\ ssepc = "bridged"
    /\ emitted < MaxEmits
    /\ emitted' = emitted + 1
    /\ \E t \in TokenPayloads :
          wire' = IF "token" \in listeners
                  THEN SendEvent(wire, "token", t) ELSE wire
    /\ UNCHANGED << ssepc, listeners, ended, closed, fired, detachedAt >>
    /\ UNCHANGED << runVars, streamVars, requestVars, pairVars, chainVars >>

\* the agent emits response or error: the listener, if attached, writes the
\* event, runs cleanup and ends the response (lines 43-53)
EmitTerminal ==
    /\ ssepc = "bridged"
    /\ emitted < MaxEmits
    /\ emitted' = emitted + 1
    /\ fired' = TRUE
    /\ \E e \in { "response", "error" } :
          IF e \in listeners
          THEN /\ wire' = SendEvent(wire, e, e)
               /\ listeners' = Cleanup(listeners)
               /\ detachedAt' = Detached(Len(wire'))
               /\ ended' = TRUE
          ELSE UNCHANGED << wire, listeners, detachedAt, ended >>
    /\ UNCHANGED << ssepc, closed >>
    /\ UNCHANGED << runVars, streamVars, requestVars, pairVars, chainVars >>

\* the agent emits start, tool_start or tool_end: the bridge has no listener
EmitOther ==
    /\ ssepc = "bridged"
    /\ emitted < MaxEmits
    /\ emitted' = emitted + 1
    /\ UNCHANGED << ssepc, listeners, wire, ended, closed, fired, detachedAt >>
    /\ UNCHANGED << runVars, streamVars, requestVars, pairVars, chainVars >>

\* lines 64-66: res emits close (the peer went away, or after res.end()):
\* cleanup runs
PeerCloses ==
    /\ ssepc = "bridged"
    /\ ~closed
    /\ closed' = TRUE
    /\ listeners' = Cleanup(listeners)
    /\ detachedAt' = Detached(Len(wire))
    /\ UNCHANGED << ssepc, wire, ended, emitted, fired >>
    /\ UNCHANGED << runVars, streamVars, requestVars, pairVars, chainVars >>

SSENext ==
    \/ BridgeToSSE
    \/ EmitToken
    \/ EmitTerminal
    \/ EmitOther
    \/ PeerCloses

SSESpec == SSEInit /\ [][SSENext]_vars

\* places of wire that hold a response or an error event
TerminalsWritten ==
    { i \in DOMAIN wire : wire[i].event \in { "response", "error" } }

(* C24: once response or error has been emitted on the agent, or the peer   *)
(* has closed the connection, the bridge has no listener left on the agent  *)
(* and nothing has been written to the response since; the bridge writes at *)
(* most one response or error event, and nothing after it.                  *)
C24_BridgeDetachesOnce ==
    /\ (fired \/ closed) =>
          /\ listeners = {}
          /\ detachedAt # -1
          /\ Len(wire) = detachedAt
    /\ Cardinality(TerminalsWritten) <= 1
    /\ TerminalsWritten # {} => TerminalsWritten = { Len(wire) } /\ ended
    /\ (ssepc = "bridged" /\ ~fired /\ ~closed) => listeners = BridgedEvents

C24_Witness ==
    /\ fired
    /\ closed
    /\ emitted = MaxEmits
    /\ Len(wire) = 2
    /\ wire[2].event = "error"
    /\ wire[1].event = "token"

----------------------------------------------------------------------------
(* Two concurrent calls of run() on one Agent *)

\* a store in which both calls use the same messages array and counter, as
\* fields of the Agent would be
SharedSlot(r) == 1

\* let messages (line 20), let iterations (line 39): locals of the call, so
\* every call of run() has a store of its own
Slot(r) == r

\* a message of the history with the call that wrote it
Written(r, role) == [by |-> r, role |-> role]

\* the Agent the two calls run on: its cap varies, its tool set is configured
PairConfigs ==
    { c \in Configs : /\ c.provider = "openai"
                      /\ c.tools
                      /\ ~c.saveFunction
                      /\ ~c.output_schema
                      /\ c.prompt = << >> }

\* the calls an answer carries: of the configured tool and of a tool the
\* agent lacks (the id of a call plays no part here)
PairCalls == { c \in ToolCalls : c.id = "call_2" }

\* both calls of run() have been made; neither has taken a step
PairInit ==
    /\ RunIdle
    /\ StreamIdle
    /\ ChainIdle
    /\ RequestIdle
    /\ SSEIdle
    /\ pairCfg \in PairConfigs
    /\ ppc = [r \in Runs |-> "start"]
    /\ histories = [r \in Runs |-> << >>]
    /\ counters = [r \in Runs |-> 0]
    /\ given = [r \in Runs |-> << >>]
    /\ pending = [r \in Runs |-> << >>]

\* lines 19-41: the call builds its history and sets its counter to 0
PairStart(r) ==
    /\ ppc[r] = "start"
    /\ histories' = [histories EXCEPT ![Slot(r)] = << Written(r, "user") >>]
    /\ counters' = [counters EXCEPT ![Slot(r)] = 0]
    /\ ppc' = [ppc EXCEPT ![r] = "while"]
    /\ UNCHANGED << pairCfg, given, pending >>
    /\ UNCHANGED << runVars, streamVars, requestVars, sseVars, chainVars >>

\* lines 44-45: while (iterations < maxIterations) { iterations++
PairWhile(r) ==
    /\ ppc[r] = "while"
    /\ IF LoopGuard(counters[Slot(r)], MaxIterations(pairCfg))
       THEN /\ counters' = [counters EXCEPT ![Slot(r)] = @ + 1]
            /\ ppc' = [ppc EXCEPT ![r] = "generate"]
       ELSE /\ counters' = counters
            /\ ppc' = [ppc EXCEPT ![r] = "done"]
    /\ UNCHANGED << pairCfg, histories, given, pending >>
    /\ UNCHANGED << runVars, streamVars, requestVars, sseVars, chainVars >>

\* lines 47-55: provider.generate(..., messages, ...) is called with the
\* history; the call of run() waits for its answer
PairGenerate(r) ==
    /\ ppc[r] = "generate"
    /\ given' = [given EXCEPT ![r] = Append(@, histories[Slot(r)])]
    /\ ppc' = [ppc EXCEPT ![r] = "answer"]
    /\ UNCHANGED << pairCfg, histories, counters, pending >>
    /\ UNCHANGED << runVars, streamVars, requestVars, sseVars, chainVars >>

\* lines 57-79, 123-126: the answer arrives: with tool calls the assistant
\* message is appended and the loop over the calls is entered, otherwise
\* the while loop is left
PairAnswer(r) ==
    /\ ppc[r] = "answer"
    /\ \E calls \in SeqsUpTo(PairCalls, MaxCalls) :
          IF Dispatches(pairCfg, [tool_calls |-> calls])
          THEN /\ histories' = [histories EXCEPT
                                   ![Slot(r)] = Push(@, Written(r, "assistant"))]
               /\ pending' = [pending EXCEPT ![r] = calls]
               /\ ppc' = [ppc EXCEPT ![r] = "tool"]
          ELSE /\ histories' = histories
               /\ pending' = pending
               /\ ppc' = [ppc EXCEPT ![r] = "done"]
    /\ UNCHANGED << pairCfg, counters, given >>
    /\ UNCHANGED << runVars, streamVars, requestVars, sseVars, chainVars >>

\* lines 80-81, 110: no configured tool has the name of the call: nothing
\* is executed and nothing is appended
PairToolMissing(r) ==
    /\ ppc[r] = "tool"
    /\ pending[r] # << >>
    /\ ~FindTool(pairCfg, Head(pending[r]))
    /\ pending' = [pending EXCEPT ![r] = Tail(@)]
    /\ UNCHANGED << pairCfg, ppc, histories, counters, given >>
    /\ UNCHANGED << runVars, streamVars, requestVars, sseVars, chainVars >>

\* lines 80-109: await tool.execute of a configured tool; when it has
\* settled, the tool message (its result or its error) is appended
PairTool(r) ==
    /\ ppc[r] = "tool"
    /\ pending[r] # << >>
    /\ FindTool(pairCfg, Head(pending[r]))
    /\ histories' = [histories EXCEPT ![Slot(r)] = Push(@, Written(r, "tool"))]
    /\ pending' = [pending EXCEPT ![r] = Tail(@)]
    /\ UNCHANGED << pairCfg, ppc, counters, given >>
    /\ UNCHANGED << runVars, streamVars, requestVars, sseVars, chainVars >>

\* lines 113-126: after the last call: continue while the cap allows
PairAfterTools(r) ==
    /\ ppc[r] = "tool"
    /\ pending[r] = << >>
    /\ ppc' = [ppc EXCEPT ![r] =
                  IF Continues(counters[Slot(r)], MaxIterations(pairCfg))
                  THEN "while" ELSE "done"]
    /\ UNCHANGED << pairCfg, histories, counters, given, pending >>
    /\ UNCHANGED << runVars, streamVars, requestVars, sseVars, chainVars >>

PairNext ==
    \/ \E r \in Runs : PairStart(r)
    \/ \E r \in Runs : PairWhile(r)
    \/ \E r \in Runs : PairGenerate(r)
    \/ \E r \in Runs : PairAnswer(r)
    \/ \E r \in Runs : PairToolMissing(r)
    \/ \E r \in Runs : PairTool(r)
    \/ \E r \in Runs : PairAfterTools(r)

PairSpec == PairInit /\ [][PairNext]_vars

\* the most generate calls one call of run() makes on this Agent
PairCeiling ==
    IF MaxIterations(pairCfg) < 0 THEN 0 ELSE MaxIterations(pairCfg)

(* C25: with two calls of run() on one Agent interleaved in any way, every  *)
(* history a call passes to the adapter holds only messages that call wrote *)
(* and begins with its own user message, the call's counter counts its own  *)
(* generate calls, and the number of generate calls of each call stays      *)
(* within the cap the run applies (max_tool_iterations || 1, none when      *)
(* that is negative), whatever the other call does.                         *)
C25_RunStatePrivate ==
    \A r \in Runs :
       /\ \A k \in DOMAIN given[r] :
             /\ given[r][k] # << >>
             /\ given[r][k][1] = Written(r, "user")
             /\ \A i \in DOMAIN given[r][k] : given[r][k][i].by = r
             /\ k > 1 => IsPrefix(given[r][k - 1], given[r][k])
       /\ Len(given[r]) <= PairCeiling
       /\ ppc[r] \in { "generate", "tool", "done" } =>
             counters[Slot(r)] =
                Len(given[r]) + (IF ppc[r] = "generate" THEN 1 ELSE 0)

C25_Witness ==
    /\ ppc[1] = "tool"
    /\ ppc[2] = "tool"
    /\ Len(given[1]) = 2
    /\ Len(given[2]) = 1

(* C32: every tool_start notification is followed by a tool_end             *)
(* notification before the next tool_start or the terminal notification,    *)
(* whether the tool returns or raises: in the notifications emitted so far, *)
(* a tool_start is directly followed by tool_end, unless it is the last one *)
(* and its tool is still executing.                                         *)
C32_ToolStartHasToolEnd ==
    \A i \in DOMAIN events :
       events[i] = "tool_start" =>
          \/ i = Len(events) /\ inFlight # {}
          \/ i < Len(events) /\ events[i + 1] = "tool_end"

\* places of the tool-result messages in the history of call r
ToolResultsOf(r) ==
    { i \in DOMAIN histories[Slot(r)] : histories[Slot(r)][i].role = "tool" }

(* C33: with a cap above 1, when a run is over every tool-result message    *)
(* it appended is part of a history it passed to a generate call: no tool   *)
(* is executed in a turn after which the cap allows no further generate     *)
(* call.                                                                    *)
C33_ToolResultsReachGenerate ==
    \A r \in Runs :
       (MaxIterations(pairCfg) > 1 /\ ppc[r] = "done") =>
          \A i \in ToolResultsOf(r) :
             \E k \in DOMAIN given[r] : i <= Len(given[r][k])

(* C34: a run never changes the history array its caller passed: at every  *)
(* point of a run given an array, also after dispatch rounds and after a    *)
(* failure, the caller's array holds the messages it held at the call.      *)
C34_CallerHistoryUntouched ==
    input.isArray => input.history = PriorHistory

C34_Witness ==
    /\ input.isArray
    /\ Settled
    /\ Len(messages) > Len(input.history) + 1
    /\ SubSeq(messages, 1, Len(input.history)) = input.history

(* C35: in the response a generate call returns, the ids of the tool calls  *)
(* are pairwise distinct, for the adapters that take the ids from the       *)
(* vendor and for the one that makes them from the clock.                   *)
C35_CallIdsDistinct ==
    gpc = "settled" =>
       \A i, j \in DOMAIN response.tool_calls :
          (/\ i # j
           /\ response.tool_calls[i] # Undefined
           /\ response.tool_calls[j] # Undefined)
             => response.tool_calls[i].id # response.tool_calls[j].id

(* C36: when a generate call has returned and its content is text, the      *)
(* texts onToken was invoked with, concatenated in order, are that content, *)
(* also when the stream carried generated images.                           *)
C36_TokensAreContent ==
    (gpc = "settled" /\ TypeofString(response.content)) =>
       response.content = Str(Concat([k \in DOMAIN tokens |-> tokens[k].text]))

(* C37: with the Google adapter, for every value a tool returned, the       *)
(* tool-role message written for it is translated into a function response  *)
(* whose payload is that value, and the translation of its text does not    *)
(* fail.                                                                    *)
C37_ToolResultRoundTrip ==
    cfg.provider = "google" =>
       \A i \in Returned :
          LET m == messages[toolLog[i].at] IN
          /\ JSONparses(m.content.s)
          /\ GoogleFunctionResponse(m).value = toolLog[i].value

(* C39: when the call of the adapter failed, the run rejects with the       *)
(* failure the adapter raised, with and without a listener on the agent's   *)
(* error notification.                                                      *)
C39_RejectsWithAdapterFailure ==
    (Settled /\ outcome = "rejected"
       /\ cause \in VendorFailures \cup { "history" }) =>
          rejection.with = cause

----------------------------------------------------------------------------
(* chain(steps) of src/chain.ts and the runs on the agents of its steps *)

\* the most steps a chain is given, and the most calls of run() that code
\* other than the chain makes on the same agents meanwhile
MaxSteps == 2

MaxOtherRuns == 1

\* the agents the steps run on
Agents == { "a1", "a2" }

\* interface ChainStep: the agent, and whether input is a value or a
\* function of the previous results
ChainStepLists ==
    UNION { [ 1..n -> [agent : Agents, input : { "value", "function" }] ] :
               n \in 0..MaxSteps }

\* lines 47-53: the input of a step: step.input, or step.input(results)
StepInput(step, rs) ==
    IF step.input = "function"
    THEN [computed |-> TRUE, over |-> rs]
    ELSE [computed |-> FALSE, over |-> << >>]

\* lines 73-74: a listener chain registers with once()
Listener(a, event, i) == [agent |-> a, event |-> event, step |-> i]

\* a run() in progress on an agent
Running(a, i, in) ==
    [agent |-> a, step |-> i, input |-> in, state |-> "running", caught |-> FALSE]

\* the step whose promise chain is awaiting
AwaitedStep == Len(results) + 1

\* EventEmitter.emit: the listeners of the event on the agent
Hit(a, event) == { l \in registered : l.agent = a /\ l.event = event }

\* lines 58-71: onResponse and onError call cleanup(), which removes both
\* listeners of their step
AfterCleanup(hit) == { l \in registered : l.step \notin { h.step : h \in hit } }

\* lines 60, 65: resolve(res) and reject(error) settle the promise of their
\* step; on a promise that is settled they do nothing
Settle(s, hit, state, value) ==
    IF s.state = "pending" /\ AwaitedStep \in { h.step : h \in hit }
    THEN [state |-> state, value |-> value]
    ELSE s

\* the promise of the run has rejected
Rejected(r) == started[r].state \in { "failed", "unhandled", "silent" }

\* line 77: step.agent.run(input).catch(reject): the rejection of the run a
\* step started rejects the promise of that step, unless it is settled
CatchReject(s, r) ==
    IF started[r].step = AwaitedStep /\ cpc = "awaiting" /\ s.state = "pending"
    THEN [state |-> "rejected", value |-> Payload("thrown", r)]
    ELSE s

ChainInit ==
    /\ RunIdle
    /\ StreamIdle
    /\ RequestIdle
    /\ SSEIdle
    /\ PairIdle
    /\ chainSteps \in ChainStepLists
    /\ cpc = "called"
    /\ results = << >>
    /\ registered = {}
    /\ started = << >>
    /\ settled = Pending

\* lines 46-78: one pass of the for loop up to its await: the input is
\* determined, the two listeners are registered, the run is started
BeginStep(i, rs) ==
    /\ registered' = registered \cup
                      { Listener(chainSteps[i].agent, e, i) :
                           e \in { "response", "error" } }
    /\ started' = Append(started,
                         Running(chainSteps[i].agent, i,
                                 StepInput(chainSteps[i], rs)))
    /\ settled' = Pending
    /\ cpc' = "awaiting"

\* lines 41-78, 86-90: chain(steps) is called and runs to its first await,
\* or to its return when there is no step
ChainCall ==
    /\ cpc = "called"
    /\ IF chainSteps = << >>
       THEN /\ cpc' = "resolved"
            /\ UNCHANGED << registered, started, settled >>
       ELSE BeginStep(1, results)
    /\ UNCHANGED << chainSteps, results >>
    /\ UNCHANGED << runVars, streamVars, requestVars, sseVars, pairVars >>

\* lines 56, 80-91: the awaited promise is settled: rejected, chain rejects
\* with the same value; resolved, the response is pushed and the loop goes to
\* the next step, or chain returns
ChainResume ==
    /\ cpc = "awaiting"
    /\ settled.state # "pending"
    /\ IF settled.state = "rejected"
       THEN /\ cpc' = "rejected"
            /\ UNCHANGED << results, registered, started, settled >>
       ELSE /\ results' = Append(results, settled.value)
            /\ IF Len(results') < Len(chainSteps)
               THEN BeginStep(Len(results') + 1, results')
               ELSE /\ cpc' = "resolved"
                    /\ UNCHANGED << registered, started, settled >>
    /\ UNCHANGED chainSteps
    /\ UNCHANGED << runVars, streamVars, requestVars, sseVars, pairVars >>

\* code other than the chain calls run() on one of the agents
OtherRun(a) ==
    /\ cpc # "idle"
    /\ Cardinality({ r \in DOMAIN started : started[r].step = 0 }) < MaxOtherRuns
    /\ started' = Append(started, Running(a, 0, StepInput([input |-> "value"], << >>)))
    /\ UNCHANGED << chainSteps, cpc, results, registered, settled >>
    /\ UNCHANGED << runVars, streamVars, requestVars, sseVars, pairVars >>

\* agent.ts lines 158-159: the run emits response with its response and
\* returns it; every listener of response on the agent is called
RunResponds(r) ==
    /\ started[r].state = "running"
    /\ started' = [started EXCEPT ![r].state = "responded"]
    /\ LET hit == Hit(started[r].agent, "response")
       IN  /\ registered' = AfterCleanup(hit)
           /\ settled' = Settle(settled, hit, "resolved", Payload("response", r))
    /\ UNCHANGED << chainSteps, cpc, results >>
    /\ UNCHANGED << runVars, streamVars, requestVars, sseVars, pairVars >>

\* agent.ts lines 128-135: the run emits error and rethrows; every listener
\* of error on the agent is called (without one, emit throws); the promise
\* of run() rejects
RunFails(r) ==
    /\ started[r].state = "running"
    /\ LET hit == Hit(started[r].agent, "error")
       IN  /\ started' = [started EXCEPT
                             ![r].state = IF hit = {} THEN "unhandled"
                                                      ELSE "failed"]
           /\ registered' = AfterCleanup(hit)
           /\ settled' = Settle(settled, hit, "rejected", Payload("error", r))
    /\ UNCHANGED << chainSteps, cpc, results >>
    /\ UNCHANGED << runVars, streamVars, requestVars, sseVars, pairVars >>

\* agent.ts lines 137-142: the run throws outside its try block (no
\* response, or a response without meta): the promise of run() rejects and
\* no notification is emitted
RunThrowsSilently(r) ==
    /\ started[r].state = "running"
    /\ started' = [started EXCEPT ![r].state = "silent"]
    /\ UNCHANGED << chainSteps, cpc, results, registered, settled >>
    /\ UNCHANGED << runVars, streamVars, requestVars, sseVars, pairVars >>

\* line 77: a later job of the microtask queue: the reaction .catch(reject)
\* registered on the promise of the run a step started is called
CatchRejects(r) ==
    /\ Rejected(r)
    /\ started[r].step # 0
    /\ ~started[r].caught
    /\ started' = [started EXCEPT ![r].caught = TRUE]
    /\ settled' = CatchReject(settled, r)
    /\ UNCHANGED << chainSteps, cpc, results, registered >>
    /\ UNCHANGED << runVars, streamVars, requestVars, sseVars, pairVars >>

ChainNext ==
    \/ ChainCall
    \/ ChainResume
    \/ \E a \in Agents : OtherRun(a)
    \/ \E r \in DOMAIN started : RunResponds(r)
    \/ \E r \in DOMAIN started : RunFails(r)
    \/ \E r \in DOMAIN started : RunThrowsSilently(r)
    \/ \E r \in DOMAIN started : CatchRejects(r)

ChainSpec == ChainInit /\ [][ChainNext]_vars

\* the runs the steps of the chain started, by step
RunOfStep(i) == { r \in DOMAIN started : started[r].step = i }

\* chain() has returned or thrown
ChainSettled == cpc \in { "resolved", "rejected" }

(* C31: chain runs its steps strictly in order: the run of a step is not    *)
(* started before the run of the step before it has emitted its response,   *)
(* and once the run of a step has ended in error no later step has a run    *)
(* and the chain, when it settles, rejects.                                 *)
C31_StepsInOrder ==
    /\ \A i \in 2..Len(chainSteps) :
          RunOfStep(i) # {} =>
             \E r \in RunOfStep(i - 1) : started[r].state = "responded"
    /\ \A i \in 1..Len(chainSteps) :
          (\E r \in RunOfStep(i) : Rejected(r)) =>
             /\ \A j \in (i + 1)..Len(chainSteps) : RunOfStep(j) = {}
             /\ ChainSettled => cpc = "rejected"

(* C38: once chain() has settled, resolved or rejected and however the run  *)
(* of a step failed, none of the response and error listeners it registered   *)
(* is still registered on the agent of any step.                            *)
C38_NoListenerLeft == ChainSettled => registered = {}

(* C40: with another run executing on the agent of a step at the same time, *)
(* every result the chain records for a step is the response of the run     *)
(* that step started, and an error the chain rejects with comes from the    *)
(* run of the step it was awaiting.                                         *)
C40_StepRecordsOwnRun ==
    /\ \A i \in DOMAIN results : results[i].run \in RunOfStep(i)
    /\ cpc = "rejected" => settled.value.run \in RunOfStep(AwaitedStep)

====
